---- MODULE Spec2Model ----
(***************************************************************************)
(* A state-machine model of the simple-jit front end: the token list, the  *)
(* Scope tree, the AST constructors and the recursive-descent Parser of    *)
(* src/src/parser.cpp, run one function step at a time over an explicit    *)
(* call stack.                                                             *)
(*                                                                         *)
(* Strings are sequences of fragments: a literal of the code is one        *)
(* fragment (<<"unknown variable ">>), a lexeme is the sequence of its     *)
(* characters (<<"1", ".", "5">>), and + is \o.                            *)
(*                                                                         *)
(* The code uses assert() both as a check and for its side effects         *)
(* (assert(ensure_token(...))).  Whether an assert is evaluated is decided *)
(* per translation unit by NDEBUG, so the build is part of the initial     *)
(* state: debug.token, debug.parser, debug.ast say whether token.cpp,      *)
(* parser.cpp and ast.cpp were compiled with assertions.                   *)
(***************************************************************************)
EXTENDS Integers, Sequences, FiniteSets, Bags, TLC

\* ------------------------------------------------------------------ bounds
\* longest enumerated token stream
MaxLen == 3
\* parse() calls made on one Parser object in SpecReuse
MaxParses == 3
\* deepest call stack before the run ends in a stack overflow
MaxDepth == 16
\* scopes created through the Scope interface in SpecScope
MaxScopes == 3
\* variables and functions defined through the Scope interface in SpecScope
MaxDefs == 2

\* ------------------------------------------------------------ common.hpp
\* Location::unreachable, static_cast<size_t>(-1)
unreachable == -1

Location(line, offset) == [line |-> line, offset |-> offset]

NoLocation == Location(unreachable, unreachable)

\* Status(code = SUCCESS, message = "", loc = Location())
Status(code, message, loc) == [code |-> code, message |-> message, location |-> loc]

DefaultStatus == Status("SUCCESS", <<>>, NoLocation)

\* ------------------------------------------------------------- token.hpp
\* enum Token::Kind, in declaration order
Kind ==
    << "undef",
       "lor", "land", "eq", "neq", "ge", "le", "range", "incrset", "decrset",
       "lparen", "rparen", "lbrace", "rbrace", "assign", "aor", "aand", "axor",
       "lnot", "gt", "lt", "add", "sub", "mul", "div", "mod", "comma", "semi",
       "double_t", "int_t", "string_t", "for_kw", "while_kw", "if_kw",
       "print_kw", "function_kw", "native_kw", "return_kw",
       "eof", "ident", "double_l", "int_l", "string_l" >>

\* kinds parser.cpp names that the enum of token.hpp does not list
UnlistedKinds == {"void_t", "in_kw", "else_kw", "anot"}

Ord(kind) == CHOOSE i \in DOMAIN Kind : Kind[i] = kind

\* FOR_PUNCTUATORS: the value and the precedence of each punctuator
Punctuators ==
    << <<"lor", "||", 4>>, <<"land", "&&", 5>>, <<"eq", "==", 9>>,
       <<"neq", "!=", 9>>, <<"ge", ">=", 10>>, <<"le", "<=", 10>>,
       <<"range", "..", 9>>, <<"incrset", "+=", 14>>, <<"decrset", "-=", 14>>,
       <<"lparen", "(", 0>>, <<"rparen", ")", 0>>, <<"lbrace", "{", 0>>,
       <<"rbrace", "}", 0>>, <<"assign", "=", 2>>, <<"aor", "|", 4>>,
       <<"aand", "&", 5>>, <<"axor", "^", 5>>, <<"lnot", "!", 0>>,
       <<"gt", ">", 10>>, <<"lt", "<", 10>>, <<"add", "+", 12>>,
       <<"sub", "-", 12>>, <<"mul", "*", 13>>, <<"div", "/", 13>>,
       <<"mod", "%", 13>>, <<"comma", ",", 0>>, <<"semi", ";", 0>> >>

\* FOR_KEYWORDS, with the keywords parser.cpp uses beyond it
Keywords ==
    << <<"double_t", "double">>, <<"int_t", "int">>, <<"string_t", "string">>,
       <<"for_kw", "for">>, <<"while_kw", "while">>, <<"if_kw", "if">>,
       <<"print_kw", "print">>, <<"function_kw", "function">>,
       <<"native_kw", "native">>, <<"return_kw", "return">>,
       <<"void_t", "void">>, <<"in_kw", "in">>, <<"else_kw", "else">> >>

\* Token::get_token_value
get_token_value(kind) ==
    IF \E i \in DOMAIN Punctuators : Punctuators[i][1] = kind
    THEN <<Punctuators[CHOOSE i \in DOMAIN Punctuators : Punctuators[i][1] = kind][2]>>
    ELSE IF \E i \in DOMAIN Keywords : Keywords[i][1] = kind
    THEN <<Keywords[CHOOSE i \in DOMAIN Keywords : Keywords[i][1] = kind][2]>>
    ELSE <<>>

\* Token::get_precedence: the third column of the token table, 0 for a token
\* that is no infix operator
get_precedence(kind) ==
    IF \E i \in DOMAIN Punctuators : Punctuators[i][1] = kind
    THEN Punctuators[CHOOSE i \in DOMAIN Punctuators : Punctuators[i][1] = kind][3]
    ELSE 0

\* Token::is_keyword: kind >= double_t && kind <= return_kw
is_keyword(kind) ==
    /\ kind \notin UnlistedKinds
    /\ Ord(kind) >= Ord("double_t")
    /\ Ord(kind) <= Ord("return_kw")

\* Token::is_assignment
is_assignment(kind) == kind = "incrset" \/ kind = "decrset" \/ kind = "assign"

\* Token::is_typename
is_typename(kind) ==
    kind = "double_t" \/ kind = "int_t" \/ kind = "string_t" \/ kind = "void_t"

\* Token(kind, value, loc)
Token(kind, value, loc) == [kind |-> kind, value |-> value, location |-> loc]

\* ----------------------------------------------------------- scanner.cpp
\* TokenList::at: the static tokens it answers with beyond the stored ones
EndToken == Token("eof", get_token_value("eof"), NoLocation)

ErrToken == Token("undef", <<>>, NoLocation)

\* TokenList::at
at(tokens, index) ==
    IF index < Len(tokens) THEN tokens[index + 1]
    ELSE IF index = Len(tokens) THEN EndToken
    ELSE ErrToken

\* ---------------------------------------------------------------- strtol
Digits == <<"0", "1", "2", "3", "4", "5", "6", "7", "8", "9">>

IsDigit(c) == \E i \in DOMAIN Digits : Digits[i] = c

DigitValue(c) == (CHOOSE i \in DOMAIN Digits : Digits[i] = c) - 1

\* the end of the run of digits of s that starts at position i
RECURSIVE DigitsEnd(_, _)
DigitsEnd(s, i) ==
    IF i <= Len(s) /\ IsDigit(s[i]) THEN DigitsEnd(s, i + 1) ELSE i

\* the number written by the digits s[i..j-1]
RECURSIVE Number(_, _, _)
Number(s, i, j) ==
    IF j <= i THEN 0 ELSE Number(s, i, j - 1) * 10 + DigitValue(s[j - 1])

\* strtol(value, &endptr, 10): the number and the position it stopped at
strtol(s) ==
    LET e == DigitsEnd(s, 1)
    IN  [num |-> Number(s, 1, e), endptr |-> e]

\* strtod(value, &endptr): digits [. digits] [e [sign] digits]; the number is
\* kept as mantissa and decimal exponent
strtod(s) ==
    LET i1 == DigitsEnd(s, 1)
        hasDot == i1 <= Len(s) /\ s[i1] = "."
        f1 == IF hasDot THEN i1 + 1 ELSE i1
        i2 == DigitsEnd(s, f1)
        any == i1 > 1 \/ i2 > f1
        mant == Number(s, 1, i1)
        frac == Number(s, f1, i2)
        fracLen == i2 - f1
        hasE == any /\ i2 <= Len(s) /\ s[i2] = "e"
        hasSign == hasE /\ i2 + 1 <= Len(s) /\ s[i2 + 1] \in {"+", "-"}
        e1 == IF hasSign THEN i2 + 2 ELSE i2 + 1
        e2 == IF hasE THEN DigitsEnd(s, e1) ELSE e1
        expOk == hasE /\ e2 > e1
        ex == IF ~expOk THEN 0
              ELSE IF hasSign /\ s[i2 + 1] = "-" THEN 0 - Number(s, e1, e2)
              ELSE Number(s, e1, e2)
    IN  IF ~any THEN [num |-> 0, exp |-> 0, endptr |-> 1]
        ELSE [num |-> mant * (10 ^ fracLen) + frac,
              exp |-> ex - fracLen,
              endptr |-> IF expOk THEN e2 ELSE i2]

\* ------------------------------------------------------------ ast.cpp: Scope
\* a Scope object: owner_, variables_, functions_, children_
ScopeObject(owner) ==
    [owner |-> owner, variables_ |-> <<>>, functions_ |-> <<>>, children_ |-> <<>>]

\* Scope::Scope(owner): the heap with the new scope appended and, when it has
\* an owner, registered as a child of it (Scope::register_child)
NewScope(heap, owner) ==
    LET id == Len(heap) + 1
        reg == IF owner # 0
               THEN [heap EXCEPT ![owner].children_ = Append(@, id)]
               ELSE heap
    IN  Append(reg, ScopeObject(owner))

\* std::map<std::string, T *>: a function from the names it holds; operator[]=
MapSet(map, name, value) ==
    [n \in (DOMAIN map) \cup {name} |-> IF n = name THEN value ELSE map[n]]

\* a lookup that lets the outermost definition win
RECURSIVE lookup_variable_outermost(_, _, _)
lookup_variable_outermost(heap, scope, name) ==
    LET up == IF heap[scope].owner # 0
              THEN lookup_variable_outermost(heap, heap[scope].owner, name)
              ELSE 0
    IN  IF up # 0 THEN up
        ELSE IF name \in DOMAIN heap[scope].variables_ THEN heap[scope].variables_[name]
        ELSE 0

\* Scope::lookup_variable: 0 is nullptr
RECURSIVE lookup_variable(_, _, _)
lookup_variable(heap, scope, name) ==
    IF name \in DOMAIN heap[scope].variables_ THEN heap[scope].variables_[name]
    ELSE IF heap[scope].owner # 0 THEN lookup_variable(heap, heap[scope].owner, name)
    ELSE 0

\* Scope::lookup_function: the scope holding the function found, 0 for nullptr
RECURSIVE lookup_function(_, _, _)
lookup_function(heap, scope, name) ==
    IF name \in DOMAIN heap[scope].functions_ THEN scope
    ELSE IF heap[scope].owner # 0 THEN lookup_function(heap, heap[scope].owner, name)
    ELSE 0

\* Variable::Variable(type, name, start, finish): owner_ is nullptr
VariableObject(type, name, start, finish) ==
    [type |-> type, name |-> name, owner |-> 0, start |-> start, finish |-> finish,
     alive |-> TRUE]

\* Scope::define_variable, on the scope heap: variables_[var->name()] = var
define_variable_scopes(heap, vars, scope, var) ==
    [heap EXCEPT ![scope].variables_ = MapSet(@, vars[var].name, var)]

\* a define_variable that does not tell the variable its scope
define_variable_vars_unowned(vars, scope, var) == vars

\* Scope::define_variable, on the variable: var->set_owner(this)
define_variable_vars(vars, scope, var) ==
    [vars EXCEPT ![var].owner = scope]

\* Scope::define_function: functions_[fun->name()] = fun
define_function(heap, scope, fun) ==
    [heap EXCEPT ![scope].functions_ = MapSet(@, fun.signature.name, fun)]

\* ------------------------------------------------------- ast.cpp: AST nodes
NullNode == [tag |-> "nullptr"]

IsNull(p) == p.tag = "nullptr"

\* std::unique_ptr::release leaves the pointer it is called on null
AfterRelease(p) == NullNode

\* ASTNode(start, finish) with the fields of every variant
Node(tag, start, finish) ==
    [tag |-> tag, kind |-> "undef", num |-> 0, exp |-> 0, str |-> <<>>,
     var |-> 0, scope |-> 0, kids |-> <<>>, start |-> start, finish |-> finish]

\* Signature(rtype, name)
Signature(rtype, name) == [return_type |-> rtype, name |-> name, params |-> <<>>]

\* Block::Block(inner): assert(inner_)
BlockChecks(inner) == inner # 0

Block(inner) == [Node("Block", NoLocation, NoLocation) EXCEPT !.scope = inner]

\* Block::push_back, CallNode::push_back, PrintNode::push_back
push_back(node, child) == [node EXCEPT !.kids = Append(@, child)]

binaries ==
    {"lor", "land", "eq", "neq", "ge", "le", "aor", "aand", "axor", "gt", "lt",
     "add", "sub", "mul", "div", "mod"}

\* BinaryExprNode::BinaryExprNode: its three assertions; left and right are
\* tested after left_(left.release()) and right_(right.release())
BinaryExprNodeChecks(kind, left, right) ==
    /\ kind \in binaries
    /\ ~IsNull(AfterRelease(left))
    /\ ~IsNull(AfterRelease(right))

BinaryExprNode(kind, left, right, start, finish) ==
    [Node("BinaryExpr", start, finish) EXCEPT !.kind = kind, !.kids = <<left, right>>]

unaries == {"anot", "lnot", "sub"}

\* UnaryExprNode::UnaryExprNode: node is tested after operand_(node.release())
UnaryExprNodeChecks(kind, node) ==
    /\ kind \in unaries
    /\ ~IsNull(AfterRelease(node))

UnaryExprNode(kind, node, start, finish) ==
    [Node("UnaryExpr", start, finish) EXCEPT !.kind = kind, !.kids = <<node>>]

StringLitNode(value, start, finish) ==
    [Node("StringLit", start, finish) EXCEPT !.str = value]

IntLitNode(value, start, finish) ==
    [Node("IntLit", start, finish) EXCEPT !.num = value]

DoubleLitNode(value, start, finish) ==
    [Node("DoubleLit", start, finish) EXCEPT !.num = value.num, !.exp = value.exp]

\* LoadNode::LoadNode: assert(var)
LoadNodeChecks(var) == var # 0

LoadNode(var, start, finish) == [Node("Load", start, finish) EXCEPT !.var = var]

assignments == {"incrset", "decrset", "assign"}

\* StoreNode::StoreNode: expr is tested after expression_(expr.release())
StoreNodeChecks(var, expr, kind) ==
    /\ kind \in assignments
    /\ ~IsNull(AfterRelease(expr))
    /\ var # 0

StoreNode(var, expr, kind, start, finish) ==
    [Node("Store", start, finish) EXCEPT !.var = var, !.kind = kind, !.kids = <<expr>>]

\* ForNode::ForNode: the members are tested
ForNodeChecks(var, expr, body) == var # 0 /\ ~IsNull(expr) /\ ~IsNull(body)

ForNode(var, expr, body, start, finish) ==
    [Node("For", start, finish) EXCEPT !.var = var, !.kids = <<expr, body>>]

\* WhileNode::WhileNode
WhileNodeChecks(expr, body) == ~IsNull(expr) /\ ~IsNull(body)

WhileNode(expr, body, start, finish) ==
    [Node("While", start, finish) EXCEPT !.kids = <<expr, body>>]

\* ReturnNode::ReturnNode: no assertion, the expression may be null
ReturnNode(expr, start, finish) ==
    [Node("Return", start, finish) EXCEPT !.kids = <<expr>>]

\* IfNode::IfNode: assert(expr_); assert(thn_); assert(els_)
IfNodeChecks(expr, if_true, if_false) ==
    ~IsNull(expr) /\ ~IsNull(if_true) /\ ~IsNull(if_false)

IfNode(expr, if_true, if_false, start, finish) ==
    [Node("If", start, finish) EXCEPT !.kids = <<expr, if_true, if_false>>]

\* CallNode::CallNode(name, start, finish)
CallNode(name, start, finish) == [Node("Call", start, finish) EXCEPT !.str = name]

\* PrintNode::PrintNode(start, finish)
PrintNode(start, finish) == Node("Print", start, finish)

\* LocatedInFile::set_finish
set_finish(node, finish) == [node EXCEPT !.finish = finish]

\* Function::Function: assert(signature_); assert(body_)
FunctionChecks(signature, body) == ~IsNull(body)

Function(signature, body, start, finish) ==
    [tag |-> "Function", signature |-> signature, body |-> body,
     start |-> start, finish |-> finish]

\* detail::token_to_type; any other kind runs into assert(0) and, without
\* assertions, falls through to the first case
token_to_type_checks(kind) == is_typename(kind)

token_to_type(kind) ==
    CASE kind = "double_t" -> "Double"
      [] kind = "int_t" -> "Int"
      [] kind = "string_t" -> "String"
      [] kind = "void_t" -> "Void"
      [] OTHER -> "Double"

\* detail::is_unary
is_unary(kind) == kind = "lnot" \/ kind = "sub"

\* ------------------------------------------------------------------ inputs
\* A source text is given by what Scanner::scan makes of it: the token list
\* and the status.  Tokens are located one per column of line 0.
T(kind) == [kind |-> kind, value |-> get_token_value(kind)]

Id(name) == [kind |-> "ident", value |-> <<name>>]

IntL(chars) == [kind |-> "int_l", value |-> chars]

DoubleL(chars) == [kind |-> "double_l", value |-> chars]

Locate(ws) == [i \in 1..Len(ws) |-> Token(ws[i].kind, ws[i].value, Location(0, i - 1))]

Scanned(ws) == [tokens |-> Locate(ws), status |-> DefaultStatus]

\* 1+2*3
Src_precedence == <<IntL(<<"1">>), T("add"), IntL(<<"2">>), T("mul"), IntL(<<"3">>)>>

\* 1+2-3
Src_leftassoc == <<IntL(<<"1">>), T("add"), IntL(<<"2">>), T("sub"), IntL(<<"3">>)>>

\* -1+2
Src_unary == <<T("sub"), IntL(<<"1">>), T("add"), IntL(<<"2">>)>>

\* -!1
Src_negnot == <<T("sub"), T("lnot"), IntL(<<"1">>)>>

\* int x=1; { int x=2; print(x); } print(x);
Src_shadowing ==
    <<T("int_t"), Id("x"), T("assign"), IntL(<<"1">>), T("semi"),
      T("lbrace"), T("int_t"), Id("x"), T("assign"), IntL(<<"2">>), T("semi"),
      T("print_kw"), T("lparen"), Id("x"), T("rparen"), T("semi"), T("rbrace"),
      T("print_kw"), T("lparen"), Id("x"), T("rparen"), T("semi")>>

\* y = 1;
Src_undefined == <<Id("y"), T("assign"), IntL(<<"1">>), T("semi")>>

\* if (x) { print(x);
Src_unbalanced ==
    <<T("if_kw"), T("lparen"), Id("x"), T("rparen"), T("lbrace"),
      T("print_kw"), T("lparen"), Id("x"), T("rparen"), T("semi")>>

\* function int add(int a, int b) { return a + b; }
Src_function ==
    <<T("function_kw"), T("int_t"), Id("add"), T("lparen"), T("int_t"), Id("a"),
      T("comma"), T("int_t"), Id("b"), T("rparen"), T("lbrace"), T("return_kw"),
      Id("a"), T("add"), Id("b"), T("semi"), T("rbrace")>>

\* { function int f(int a) { a = 1; } }
Src_nested ==
    <<T("lbrace"), T("function_kw"), T("int_t"), Id("f"), T("lparen"), T("int_t"),
      Id("a"), T("rparen"), T("lbrace"), Id("a"), T("assign"), IntL(<<"1">>),
      T("semi"), T("rbrace"), T("rbrace")>>

\* { function void g() { return; } ; }
Src_return ==
    <<T("lbrace"), T("function_kw"), T("void_t"), Id("g"), T("lparen"), T("rparen"),
      T("lbrace"), T("return_kw"), T("semi"), T("rbrace"), T("semi"), T("rbrace")>>

\* double d = 1.5;   and   double d = 1e;
Src_double ==
    <<T("double_t"), Id("d"), T("assign"), DoubleL(<<"1", ".", "5">>), T("semi")>>

Src_baddouble ==
    <<T("double_t"), Id("d"), T("assign"), DoubleL(<<"1", "e">>), T("semi")>>

\* f('s', (1));
Src_call ==
    <<Id("f"), T("lparen"), [kind |-> "string_l", value |-> <<"s">>], T("comma"),
      T("lparen"), IntL(<<"1">>), T("rparen"), T("rparen"), T("semi")>>

\* f();
Src_call0 == <<Id("f"), T("lparen"), T("rparen"), T("semi")>>

\* while (1) { }
Src_while == <<T("while_kw"), T("lparen"), IntL(<<"1">>), T("rparen"), T("lbrace"), T("rbrace")>>

\* for (x in 1.5) { }
Src_for ==
    <<T("for_kw"), T("lparen"), Id("x"), T("in_kw"), DoubleL(<<"1", ".", "5">>),
      T("rparen"), T("lbrace"), T("rbrace")>>

\* if (f()) { } else { }
Src_if ==
    <<T("if_kw"), T("lparen"), Id("f"), T("lparen"), T("rparen"), T("rparen"),
      T("lbrace"), T("rbrace"), T("else_kw"), T("lbrace"), T("rbrace")>>

\* print(1);
Src_print == <<T("print_kw"), T("lparen"), IntL(<<"1">>), T("rparen"), T("semi")>>

\* return;
Src_toplevel_return == <<T("return_kw"), T("semi")>>

\* int x;
Src_noinit == <<T("int_t"), Id("x"), T("semi")>>

\* int x; y = 1;
Src_skipped ==
    <<T("int_t"), Id("x"), T("semi"), Id("y"), T("assign"), IntL(<<"1">>), T("semi")>>

\* { { } ; }
Src_blocks == <<T("lbrace"), T("lbrace"), T("rbrace"), T("semi"), T("rbrace")>>

\* { function void f(int a) { int a = 1; } }
Src_redeclared ==
    <<T("lbrace"), T("function_kw"), T("void_t"), Id("f"), T("lparen"), T("int_t"),
      Id("a"), T("rparen"), T("lbrace"), T("int_t"), Id("a"), T("assign"),
      IntL(<<"1">>), T("semi"), T("rbrace"), T("rbrace")>>

\* { function void f(int a, int a) { } }
Src_dupparam ==
    <<T("lbrace"), T("function_kw"), T("void_t"), Id("f"), T("lparen"), T("int_t"),
      Id("a"), T("comma"), T("int_t"), Id("a"), T("rparen"), T("lbrace"),
      T("rbrace"), T("rbrace")>>

\* for (x in y) { }
Src_for_undefined ==
    <<T("for_kw"), T("lparen"), Id("x"), T("in_kw"), Id("y"), T("rparen"),
      T("lbrace"), T("rbrace")>>

\* int x = x;
Src_selfinit == <<T("int_t"), Id("x"), T("assign"), Id("x"), T("semi")>>

\* if (1) { }
Src_ifonly ==
    <<T("if_kw"), T("lparen"), IntL(<<"1">>), T("rparen"), T("lbrace"), T("rbrace")>>

\* print();
Src_print0 == <<T("print_kw"), T("lparen"), T("rparen"), T("semi")>>

\* 1 .. 1
Src_infix_range == <<IntL(<<"1">>), T("range"), IntL(<<"1">>)>>

\* 1 += 1
Src_infix_incrset == <<IntL(<<"1">>), T("incrset"), IntL(<<"1">>)>>

\* 1 -= 1
Src_infix_decrset == <<IntL(<<"1">>), T("decrset"), IntL(<<"1">>)>>

\* 1 = 1
Src_infix_assign == <<IntL(<<"1">>), T("assign"), IntL(<<"1">>)>>

\* a text the scanner rejects: 1 + #, and an unterminated string
ScanFailed ==
    { [tokens |-> Locate(<<IntL(<<"1">>), T("add")>>),
       status |-> Status("ERROR", <<"undefined token">>, Location(0, 2))],
      [tokens |-> <<>>,
       status |-> Status("ERROR", <<"unexpected end of file">>, Location(0, 3))] }

Named ==
    { Src_precedence, Src_leftassoc, Src_unary, Src_negnot, Src_skipped, Src_shadowing, Src_undefined,
      Src_unbalanced, Src_function, Src_nested, Src_return, Src_double,
      Src_baddouble, Src_call, Src_call0, Src_while, Src_for, Src_if, Src_print,
      Src_toplevel_return, Src_noinit, Src_blocks, Src_redeclared, Src_dupparam,
      Src_for_undefined, Src_selfinit, Src_ifonly, Src_print0, Src_infix_range,
      Src_infix_incrset, Src_infix_decrset, Src_infix_assign }

Alphabet ==
    { Id("x"), IntL(<<"1">>), T("add"), T("sub"), T("lbrace"), T("rbrace"),
      T("semi"), T("assign"), T("int_t") }

Enumerated == UNION { [1..n -> Alphabet] : n \in 0..MaxLen }

\* the texts parse() is called with in Spec
Inputs == { Scanned(ws) : ws \in Named \cup Enumerated } \cup ScanFailed

\* the texts parse() is called with in SpecReuse
ReuseInputs ==
    { Scanned(ws) : ws \in { Src_return, Src_while, Src_for, Src_if, Src_print,
                             Src_skipped } }
    \cup { [tokens |-> <<>>,
            status |-> Status("ERROR", <<"unexpected end of file">>, Location(0, 3))] }

\* -------------------------------------------------------------------- state
VARIABLES
    debug,      \* the build: which translation units evaluate assert()
    reuse,      \* whether the caller keeps the Parser for further parse() calls
    pc,         \* idle | run | abort | segv | overflow
    todo,       \* parse() calls still to be made
    code,       \* the argument of the running (or last) parse() call
    stack,      \* the call stack of the running parse(), innermost last
    ret,        \* the value the last returned call handed back
    scope_,     \* Parser::scope_
    status_,    \* Parser::status_: 0 is nullptr, 1 is &status
    tokens_,    \* Parser::tokens_
    pos_,       \* Parser::pos_
    status,     \* the caller's Status object
    scopes,     \* the Scope objects, by address
    variables,  \* the Variable objects, by address
    results,    \* what each finished parse() returned
    deleted,    \* the objects delete was applied to, with how often
    scanner     \* a Scanner at work, with what its tokens_ and status_ point to

vars ==
    <<debug, reuse, pc, todo, code, stack, ret, scope_, status_, tokens_, pos_,
      status, scopes, variables, results, deleted, scanner>>

\* the next state: the fields of u, every other variable unchanged
Do(u) ==
    /\ pc' = IF "pc" \in DOMAIN u THEN u.pc ELSE pc
    /\ todo' = IF "todo" \in DOMAIN u THEN u.todo ELSE todo
    /\ code' = IF "code" \in DOMAIN u THEN u.code ELSE code
    /\ stack' = IF "stack" \in DOMAIN u THEN u.stack ELSE stack
    /\ ret' = IF "ret" \in DOMAIN u THEN u.ret ELSE ret
    /\ scope_' = IF "scope_" \in DOMAIN u THEN u.scope_ ELSE scope_
    /\ status_' = IF "status_" \in DOMAIN u THEN u.status_ ELSE status_
    /\ tokens_' = IF "tokens_" \in DOMAIN u THEN u.tokens_ ELSE tokens_
    /\ pos_' = IF "pos_" \in DOMAIN u THEN u.pos_ ELSE pos_
    /\ status' = IF "status" \in DOMAIN u THEN u.status ELSE status
    /\ scopes' = IF "scopes" \in DOMAIN u THEN u.scopes ELSE scopes
    /\ variables' = IF "variables" \in DOMAIN u THEN u.variables ELSE variables
    /\ results' = IF "results" \in DOMAIN u THEN u.results ELSE results
    /\ deleted' = IF "deleted" \in DOMAIN u THEN u.deleted ELSE deleted
    /\ scanner' = IF "scanner" \in DOMAIN u THEN u.scanner ELSE scanner
    /\ UNCHANGED <<debug, reuse>>

Top == stack[Len(stack)]

\* the running function is fn, and the stack has room for its next call
Running(fn) == pc = "run" /\ stack # <<>> /\ Len(stack) < MaxDepth /\ Top.fn = fn

Frame(fn, label) == [fn |-> fn, at |-> label]

\* stay in the running function, with frame f
Goto(f) == [stack |-> [stack EXCEPT ![Len(stack)] = f]]

\* call callee and resume in frame f
Call(f, callee) == [stack |-> Append([stack EXCEPT ![Len(stack)] = f], callee)]

\* return callee(): the callee's result is the running function's
TailCall(callee) == [stack |-> [stack EXCEPT ![Len(stack)] = callee]]

\* return value
Return(value) == [stack |-> SubSeq(stack, 1, Len(stack) - 1), ret |-> value]

\* a failed assert(): abort()
Abort == [pc |-> "abort"]

\* a null pointer dereferenced
Segv == [pc |-> "segv"]

\* Parser::error: Status(Status::ERROR, message, loc).swap(*status_)
error(message, loc) == [status |-> Status("ERROR", message, loc)]

\* an is_ok that never sees the error
is_ok_always == TRUE

\* Parser::is_ok
is_ok == status.code # "ERROR"

\* Parser::peek_token
peek_token(offset) == at(tokens_, pos_ + offset).kind

\* Parser::location
location == at(tokens_, pos_).location

\* Parser::extract_token: the token; the cursor moves by consume_token
extract_token == at(tokens_, pos_)

\* Parser::consume_token
consume_token(count) == [pos_ |-> pos_ + count]

\* Parser::push_scope: scope_ = new Scope(scope_)
push_scope(heap, current) ==
    [scopes |-> NewScope(heap, current), scope_ |-> Len(heap) + 1]

\* Parser::pop_scope: assert(scope_); scope_ = scope_->owner()
pop_scope(heap, current) == [scope_ |-> heap[current].owner]

\* a clear() that leaves the cursor where the last parse stopped
clear_cursor_kept == [scope_ |-> 0, status_ |-> 0, tokens_ |-> <<>>]

\* Parser::clear
clear == [scope_ |-> 0, status_ |-> 0, tokens_ |-> <<>>, pos_ |-> 0]

\* Parser::parse_expression: return parse_binary(), with its default argument
DefaultPrecedence == 1

parse_expression == [fn |-> "parse_binary", at |-> "begin", prev |-> DefaultPrecedence]

\* the value of field name after update u of a variable holding old
After(u, name, old) == IF name \in DOMAIN u THEN u[name] ELSE old

\* Program(top, scope)
Program(top, scope) == [tag |-> "Program", top_ |-> top, scope_ |-> scope]

\* what a parse() call handed back to its caller
Outcome(text, program, st) == [code |-> text, program |-> program, status |-> st]

\* ------------------------------------------------------------------ Parser
\* Parser::parse(code, status): called by the environment when pc is idle,
\* and resumed when parse_toplevel has returned
parse ==
    IF pc = "idle"
    THEN /\ todo > 0
         /\ \E text \in (IF reuse THEN ReuseInputs ELSE Inputs) :
              LET cleared == clear
                  scanned == [tokens_ |-> text.tokens, status |-> text.status]
                  pushed == push_scope(scopes, After(cleared, "scope_", scope_))
              IN  IF text.status.code = "ERROR"
                  THEN Do(scanned @@ cleared @@
                          [code |-> text, todo |-> todo - 1,
                           results |-> Append(results, Outcome(text, NullNode, text.status))])
                  ELSE Do(pushed @@ scanned @@ [status_ |-> 1] @@ cleared @@
                          [code |-> text, pc |-> "run",
                           stack |-> << [fn |-> "parse", at |-> "toplevel",
                                         top_scope |-> pushed.scope_],
                                        Frame("parse_toplevel", "begin") >>])
    ELSE /\ Running("parse")
         /\ IF debug.parser /\ scope_ = 0
            THEN Do(Abort)
            ELSE Do(pop_scope(scopes, scope_) @@
                    [pc |-> "idle", stack |-> <<>>, todo |-> todo - 1,
                     results |-> Append(results,
                                        Outcome(code, Program(ret, Top.top_scope), status))])

\* Parser::parse_toplevel
parse_toplevel ==
    /\ Running("parse_toplevel")
    /\ LET f == Top
       IN  CASE f.at = "begin" ->
                  IF debug.ast /\ ~BlockChecks(scope_)
                  THEN Do(Abort)
                  ELSE Do(Goto([fn |-> f.fn, at |-> "loop", body |-> Block(scope_)]))
             [] f.at = "loop" ->
                  \* the first TokenList::at() builds its static Token(Token::undef),
                  \* whose get_token_value asserts kind > Token::undef
                  IF debug.token THEN Do(Abort)
                  ELSE IF peek_token(0) = "eof"
                  THEN Do(Return(Function(Signature("Void", <<"_start">>), f.body,
                                          NoLocation, NoLocation)))
                  ELSE IF peek_token(0) = "semi"
                  THEN Do(consume_token(1))
                  ELSE Do(Call([f EXCEPT !.at = "stmt"], Frame("parse_statement", "begin")))
             [] f.at = "stmt" ->
                  IF ~is_ok THEN Do(Return(NullNode))
                  ELSE IF ~IsNull(ret)
                  THEN Do(Goto([f EXCEPT !.at = "loop", !.body = push_back(@, ret)]))
                  ELSE Do(Goto([f EXCEPT !.at = "loop"]))

\* a parse_block that takes the end of input for the closing brace
parse_block_truncating ==
    /\ Running("parse_block")
    /\ LET f == Top
       IN  CASE f.at = "begin" ->
                  LET pushed == push_scope(scopes, scope_)
                      blk == [fn |-> f.fn, at |-> "loop", blk |-> Block(pushed.scope_)]
                  IN  IF ~debug.parser THEN Do(pushed @@ Goto(blk))
                      ELSE IF peek_token(0) = "lbrace"
                      THEN Do(pushed @@ consume_token(1) @@ Goto(blk))
                      ELSE Do(pushed @@ Abort)
             [] f.at = "loop" ->
                  IF peek_token(0) = "rbrace"
                  THEN Do(pop_scope(scopes, scope_) @@ consume_token(1) @@ Return(f.blk))
                  ELSE IF peek_token(0) = "eof"
                  THEN Do(pop_scope(scopes, scope_) @@ Return(f.blk))
                  ELSE IF peek_token(0) = "semi"
                  THEN Do(consume_token(1))
                  ELSE IF peek_token(0) = "function_kw"
                  THEN Do(Call([f EXCEPT !.at = "fun"], Frame("parse_function", "begin")))
                  ELSE Do(Call([f EXCEPT !.at = "stmt"], Frame("parse_statement", "begin")))
             [] f.at = "fun" ->
                  IF IsNull(ret) THEN Do(Return(NullNode))
                  ELSE Do([scopes |-> define_function(scopes, scope_, ret)]
                          @@ Goto([f EXCEPT !.at = "loop"]))
             [] f.at = "stmt" ->
                  IF ~is_ok THEN Do(Return(NullNode))
                  ELSE IF ~IsNull(ret)
                  THEN Do(Goto([f EXCEPT !.at = "loop", !.blk = push_back(@, ret)]))
                  ELSE Do(Goto([f EXCEPT !.at = "loop"]))

\* Parser::parse_block
parse_block ==
    /\ Running("parse_block")
    /\ LET f == Top
       IN  CASE f.at = "begin" ->
                  LET pushed == push_scope(scopes, scope_)
                      blk == [fn |-> f.fn, at |-> "loop", blk |-> Block(pushed.scope_)]
                  IN  IF ~debug.parser THEN Do(pushed @@ Goto(blk))
                      ELSE IF peek_token(0) = "lbrace"
                      THEN Do(pushed @@ consume_token(1) @@ Goto(blk))
                      ELSE Do(pushed @@ Abort)
             [] f.at = "loop" ->
                  IF peek_token(0) = "rbrace"
                  THEN LET popped == pop_scope(scopes, scope_)
                       IN  IF debug.parser /\ scope_ = 0 THEN Do(Abort)
                           ELSE IF peek_token(0) = "rbrace"
                           THEN Do(popped @@ consume_token(1) @@ Return(f.blk))
                           ELSE Do(popped @@ error(<<"} expected">>, location)
                                   @@ Return(NullNode))
                  ELSE IF peek_token(0) = "semi"
                  THEN Do(consume_token(1))
                  ELSE IF peek_token(0) = "function_kw"
                  THEN Do(Call([f EXCEPT !.at = "fun"], Frame("parse_function", "begin")))
                  ELSE Do(Call([f EXCEPT !.at = "stmt"], Frame("parse_statement", "begin")))
             [] f.at = "fun" ->
                  IF IsNull(ret) THEN Do(Return(NullNode))
                  ELSE Do([scopes |-> define_function(scopes, scope_, ret)]
                          @@ Goto([f EXCEPT !.at = "loop"]))
             [] f.at = "stmt" ->
                  IF ~is_ok THEN Do(Return(NullNode))
                  ELSE IF ~IsNull(ret)
                  THEN Do(Goto([f EXCEPT !.at = "loop", !.blk = push_back(@, ret)]))
                  ELSE Do(Goto([f EXCEPT !.at = "loop"]))

\* Parser::parse_statement
parse_statement ==
    /\ Running("parse_statement")
    /\ LET tok == peek_token(0)
           next == peek_token(1)
       IN  IF is_keyword(tok)
           THEN CASE tok = "if_kw" -> Do(TailCall(Frame("parse_if", "begin")))
                  [] tok = "for_kw" -> Do(TailCall(Frame("parse_for", "begin")))
                  [] tok = "while_kw" -> Do(TailCall(Frame("parse_while", "begin")))
                  [] tok = "print_kw" -> Do(TailCall(Frame("parse_print", "begin")))
                  [] tok = "return_kw" -> Do(TailCall(Frame("parse_return", "begin")))
                  [] tok \in {"int_t", "double_t", "string_t"} ->
                       Do(TailCall(Frame("parse_declaration", "begin")))
                  [] OTHER -> Do(error(<<"unexpected token">>, location) @@ Return(NullNode))
           ELSE IF tok = "lbrace"
           THEN Do(TailCall(Frame("parse_block", "begin")))
           ELSE IF tok = "ident" /\ is_assignment(next)
           THEN Do(TailCall(Frame("parse_assignment", "begin")))
           ELSE Do(TailCall(parse_expression))

\* new Node(...) and return it: the constructor's assertions are evaluated
\* when ast.cpp is compiled with them
Construct(checks, node) ==
    IF debug.ast /\ ~checks THEN Do(Abort) ELSE Do(Return(node))

\* new Node(..., std::move(p), ..., p->finish()): the order in which the
\* arguments are evaluated is unspecified, and p is null once the parameter
\* has been moved into
ConstructMoved(checks, node) ==
    \E order \in {"operand", "move"} :
        IF order = "move" THEN Do(Segv) ELSE Construct(checks, node)

\* the tokens consumed by assert(ensure_token(kind)): one when the assertion
\* is evaluated and holds, none when it is compiled out, -1 when it fails
Ensured(kind) ==
    IF ~debug.parser THEN 0
    ELSE IF peek_token(0) = kind THEN 1
    ELSE -1

\* a parse_assignment that does not look the target up
parse_assignment_unchecked ==
    /\ Running("parse_assignment")
    /\ LET f == Top
       IN  CASE f.at = "begin" ->
                  Do(consume_token(2)
                     @@ Call([fn |-> f.fn, at |-> "expr", var |-> extract_token,
                              variable |-> lookup_variable(scopes, scope_, extract_token.value),
                              op |-> at(tokens_, pos_ + 1)],
                             parse_expression))
             [] f.at = "expr" ->
                  IF IsNull(ret) THEN Do(Return(NullNode))
                  ELSE ConstructMoved(StoreNodeChecks(f.variable, ret, f.op.kind),
                                      StoreNode(f.variable, ret, f.op.kind,
                                                f.var.location, ret.finish))

\* Parser::parse_assignment
parse_assignment ==
    /\ Running("parse_assignment")
    /\ LET f == Top
       IN  CASE f.at = "begin" ->
                  LET var == extract_token
                      variable == lookup_variable(scopes, scope_, var.value)
                      op == at(tokens_, pos_ + 1)
                  IN  IF debug.parser /\ var.kind # "ident" THEN Do(Abort)
                      ELSE IF variable = 0
                      THEN Do(consume_token(1)
                              @@ error(<<"unknown variable ">> \o var.value, var.location)
                              @@ Return(NullNode))
                      ELSE IF debug.parser /\ ~is_assignment(op.kind) THEN Do(Abort)
                      ELSE Do(consume_token(2)
                              @@ Call([fn |-> f.fn, at |-> "expr", var |-> var,
                                       variable |-> variable, op |-> op],
                                      parse_expression))
             [] f.at = "expr" ->
                  IF IsNull(ret) THEN Do(Return(NullNode))
                  ELSE ConstructMoved(StoreNodeChecks(f.variable, ret, f.op.kind),
                                      StoreNode(f.variable, ret, f.op.kind,
                                                f.var.location, ret.finish))

\* Parser::parse_call
parse_call ==
    /\ Running("parse_call")
    /\ LET f == Top
       IN  CASE f.at = "begin" ->
                  LET fun == extract_token
                      after == at(tokens_, pos_ + 1)
                  IN  IF debug.parser /\ fun.kind # "ident" THEN Do(Abort)
                      ELSE IF after.kind # "lparen"
                      THEN Do(consume_token(1)
                              @@ error(<<"( expected">>, after.location)
                              @@ Return(NullNode))
                      ELSE Do(consume_token(2)
                              @@ Goto([fn |-> f.fn, at |-> "loop",
                                       call |-> CallNode(fun.value, fun.location,
                                                         NoLocation)]))
             [] f.at = "loop" ->
                  IF peek_token(0) = "rparen"
                  THEN Do(consume_token(1)
                          @@ Return(set_finish(f.call, at(tokens_, pos_ + 1).location)))
                  ELSE Do(Call([f EXCEPT !.at = "arg"], parse_expression))
             [] f.at = "arg" ->
                  IF IsNull(ret) THEN Do(Return(NullNode))
                  ELSE IF peek_token(0) = "comma"
                  THEN Do(consume_token(1)
                          @@ Goto([f EXCEPT !.at = "loop", !.call = push_back(@, ret)]))
                  ELSE IF peek_token(0) # "rparen"
                  THEN Do(error(<<"expected comma or bracket">>, location)
                          @@ Return(NullNode))
                  ELSE Do(Goto([f EXCEPT !.at = "loop", !.call = push_back(@, ret)]))

\* Parser::parse_function, its parameter loop, from cursor p: the signature
\* and the cursor after the closing parenthesis, or the error
RECURSIVE parse_parameters(_, _, _)
parse_parameters(tokens, p, sign) ==
    LET param_type == at(tokens, p)
        param_name == at(tokens, p + 1)
        after == at(tokens, p + 2)
        added == [sign EXCEPT !.params =
                     Append(@, <<token_to_type(param_type.kind), param_name.value>>)]
    IN  IF param_type.kind = "rparen"
        THEN [ok |-> TRUE, pos |-> p + 1, sign |-> sign]
        ELSE IF ~is_typename(param_type.kind)
        THEN [ok |-> FALSE, pos |-> p + 1, message |-> <<"typename or ) expected">>,
              location |-> param_type.location]
        ELSE IF param_name.kind # "ident"
        THEN [ok |-> FALSE, pos |-> p + 2, message |-> <<"identifier or ) expected">>,
              location |-> param_name.location]
        ELSE IF after.kind = "comma"
        THEN parse_parameters(tokens, p + 3, added)
        ELSE IF after.kind # "rparen"
        THEN [ok |-> FALSE, pos |-> p + 2, message |-> <<", or ) expected">>,
              location |-> after.location]
        ELSE parse_parameters(tokens, p + 2, added)

\* Parser::parse_function, its loop over the signature: one Variable per
\* parameter from the i-th on, defined in scope
RECURSIVE define_parameters(_, _, _, _, _, _, _)
define_parameters(heap, objects, scope, params, i, start, finish) ==
    IF i > Len(params) THEN [scopes |-> heap, variables |-> objects]
    ELSE LET created == Append(objects, VariableObject(params[i][1], params[i][2],
                                                    start, finish))
             var == Len(created)
         IN  define_parameters(define_variable_scopes(heap, created, scope, var),
                               define_variable_vars(created, scope, var),
                               scope, params, i + 1, start, finish)

\* Parser::parse_function
parse_function ==
    /\ Running("parse_function")
    /\ LET f == Top
       IN  CASE f.at = "begin" ->
                  LET p == pos_ + Ensured("function_kw")
                      tp == at(tokens_, p)
                      nm == at(tokens_, p + 1)
                      paren == at(tokens_, p + 2)
                      sign == parse_parameters(tokens_, p + 3,
                                  Signature(token_to_type(tp.kind), nm.value))
                      pushed == push_scope(scopes, scope_)
                  IN  IF Ensured("function_kw") < 0 THEN Do(Abort)
                      ELSE IF ~is_typename(tp.kind)
                      THEN Do([pos_ |-> p + 1] @@ error(<<"type expected">>, tp.location)
                              @@ Return(NullNode))
                      ELSE IF nm.kind # "ident"
                      THEN Do([pos_ |-> p + 2]
                              @@ error(<<"identifier expected">>, nm.location)
                              @@ Return(NullNode))
                      ELSE IF paren.kind # "lparen"
                      THEN Do([pos_ |-> p + 2] @@ error(<<"( expected">>, paren.location)
                              @@ Return(NullNode))
                      ELSE IF ~sign.ok
                      THEN Do([pos_ |-> sign.pos] @@ error(sign.message, sign.location)
                              @@ Return(NullNode))
                      ELSE Do([pos_ |-> sign.pos]
                              @@ define_parameters(pushed.scopes, variables, pushed.scope_,
                                                   sign.sign.params, 1, tp.location,
                                                   at(tokens_, sign.pos).location)
                              @@ pushed
                              @@ Call([fn |-> f.fn, at |-> "body", tp |-> tp,
                                       sign |-> sign.sign],
                                      Frame("parse_block", "begin")))
             [] f.at = "body" ->
                  IF IsNull(ret) THEN Do(Return(NullNode))
                  ELSE IF debug.parser /\ scope_ = 0 THEN Do(Abort)
                  ELSE LET popped == pop_scope(scopes, scope_)
                       IN  IF debug.ast /\ ~FunctionChecks(f.sign, ret)
                           THEN Do(popped @@ Abort)
                           ELSE Do(popped @@ Return(Function(f.sign, ret, f.tp.location,
                                                             location)))

\* Parser::parse_while
parse_while ==
    /\ Running("parse_while")
    /\ LET f == Top
       IN  CASE f.at = "begin" ->
                  LET p == pos_ + Ensured("while_kw")
                  IN  IF Ensured("while_kw") < 0 THEN Do(Abort)
                      ELSE IF at(tokens_, p).kind # "lparen"
                      THEN Do([pos_ |-> p] @@ error(<<"( expected">>, at(tokens_, p).location)
                              @@ Return(NullNode))
                      ELSE Do([pos_ |-> p + 1]
                              @@ Call([fn |-> f.fn, at |-> "cond", start |-> location],
                                      parse_expression))
             [] f.at = "cond" ->
                  IF IsNull(ret) THEN Do(Return(NullNode))
                  ELSE IF peek_token(0) # "rparen"
                  THEN Do(error(<<") expected">>, location) @@ Return(NullNode))
                  ELSE Do(consume_token(1)
                          @@ Call([fn |-> f.fn, at |-> "body", start |-> f.start,
                                   expr |-> ret],
                                  Frame("parse_block", "begin")))
             [] f.at = "body" ->
                  IF IsNull(ret) THEN Do(Return(NullNode))
                  ELSE Construct(WhileNodeChecks(f.expr, ret),
                                 WhileNode(f.expr, ret, f.start, location))

\* Parser::parse_for
parse_for ==
    /\ Running("parse_for")
    /\ LET f == Top
       IN  CASE f.at = "begin" ->
                  LET p == pos_ + Ensured("for_kw")
                      var == at(tokens_, p + 1)
                  IN  IF Ensured("for_kw") < 0 THEN Do(Abort)
                      ELSE IF at(tokens_, p).kind # "lparen"
                      THEN Do([pos_ |-> p] @@ error(<<"( expected">>, at(tokens_, p).location)
                              @@ Return(NullNode))
                      ELSE IF var.kind # "ident"
                      THEN Do([pos_ |-> p + 2]
                              @@ error(<<"identifier expected">>, var.location)
                              @@ Return(NullNode))
                      ELSE IF at(tokens_, p + 2).kind # "in_kw"
                      THEN Do([pos_ |-> p + 2]
                              @@ error(<<"in expected">>, at(tokens_, p + 2).location)
                              @@ Return(NullNode))
                      ELSE Do([pos_ |-> p + 3]
                              @@ Call([fn |-> f.fn, at |-> "range", start |-> location,
                                       var |-> var],
                                      parse_expression))
             [] f.at = "range" ->
                  IF IsNull(ret) THEN Do(Return(NullNode))
                  ELSE IF peek_token(0) # "rparen"
                  THEN Do(error(<<") expected">>, location) @@ Return(NullNode))
                  ELSE Do(consume_token(1)
                          @@ Call([fn |-> f.fn, at |-> "body", start |-> f.start,
                                   var |-> f.var, expr |-> ret],
                                  Frame("parse_block", "begin")))
             [] f.at = "body" ->
                  LET v == lookup_variable(scopes, scope_, f.var.value)
                  IN  IF IsNull(ret) THEN Do(Return(NullNode))
                      ELSE IF v = 0
                      THEN Do(error(<<"unknown variable">> \o f.var.value, f.var.location)
                              @@ Return(NullNode))
                      ELSE Construct(ForNodeChecks(v, f.expr, ret),
                                     ForNode(v, f.expr, ret, f.start, location))

\* Parser::parse_if
parse_if ==
    /\ Running("parse_if")
    /\ LET f == Top
       IN  CASE f.at = "begin" ->
                  LET p == pos_ + Ensured("if_kw")
                  IN  IF Ensured("if_kw") < 0 THEN Do(Abort)
                      ELSE IF at(tokens_, p).kind # "lparen"
                      THEN Do([pos_ |-> p] @@ error(<<"( expected">>, at(tokens_, p).location)
                              @@ Return(NullNode))
                      ELSE Do([pos_ |-> p + 1]
                              @@ Call([fn |-> f.fn, at |-> "cond", start |-> location],
                                      parse_expression))
             [] f.at = "cond" ->
                  IF IsNull(ret) THEN Do(Return(NullNode))
                  ELSE IF peek_token(0) # "rparen"
                  THEN Do(error(<<"( expected">>, location) @@ Return(NullNode))
                  ELSE Do(consume_token(1)
                          @@ Call([fn |-> f.fn, at |-> "then", start |-> f.start,
                                   expr |-> ret],
                                  Frame("parse_block", "begin")))
             [] f.at = "then" ->
                  IF IsNull(ret) THEN Do(Return(NullNode))
                  ELSE IF peek_token(0) = "else_kw"
                  THEN Do(consume_token(1)
                          @@ Call([fn |-> f.fn, at |-> "else", start |-> f.start,
                                   expr |-> f.expr, then_body |-> ret],
                                  Frame("parse_block", "begin")))
                  ELSE Construct(IfNodeChecks(f.expr, ret, NullNode),
                                 IfNode(f.expr, ret, NullNode, f.start, location))
             [] f.at = "else" ->
                  IF IsNull(ret) THEN Do(Return(NullNode))
                  ELSE Construct(IfNodeChecks(f.expr, f.then_body, ret),
                                 IfNode(f.expr, f.then_body, ret, f.start, location))

\* Parser::parse_return
parse_return ==
    /\ Running("parse_return")
    /\ LET f == Top
       IN  CASE f.at = "begin" ->
                  LET p == pos_ + Ensured("return_kw")
                  IN  IF Ensured("return_kw") < 0 THEN Do(Abort)
                      ELSE IF at(tokens_, p).kind = "semi"
                      THEN Do([pos_ |-> p]
                              @@ Return(ReturnNode(NullNode, location, location)))
                      ELSE Do([pos_ |-> p]
                              @@ Call([fn |-> f.fn, at |-> "expr", loc |-> location],
                                      parse_expression))
             [] f.at = "expr" ->
                  IF IsNull(ret) THEN Do(Return(NullNode))
                  ELSE Do(Return(ReturnNode(ret, f.loc, location)))

\* Parser::parse_print; its first line is assert(ensure_token(Token::return_kw))
parse_print ==
    /\ Running("parse_print")
    /\ LET f == Top
       IN  CASE f.at = "begin" ->
                  LET p == pos_ + Ensured("return_kw")
                  IN  IF Ensured("return_kw") < 0 THEN Do(Abort)
                      ELSE IF at(tokens_, p).kind # "lparen"
                      THEN Do([pos_ |-> p] @@ error(<<"( expected">>, at(tokens_, p).location)
                              @@ Return(NullNode))
                      ELSE Do([pos_ |-> p + 1]
                              @@ Goto([fn |-> f.fn, at |-> "loop",
                                       print |-> PrintNode(location, NoLocation)]))
             [] f.at = "loop" ->
                  IF peek_token(0) = "rparen"
                  THEN Do(consume_token(1)
                          @@ Return(set_finish(f.print, at(tokens_, pos_ + 1).location)))
                  ELSE Do(Call([f EXCEPT !.at = "arg"], parse_expression))
             [] f.at = "arg" ->
                  IF IsNull(ret) THEN Do(Return(NullNode))
                  ELSE IF peek_token(0) = "comma"
                  THEN Do(consume_token(1)
                          @@ Goto([f EXCEPT !.at = "loop", !.print = push_back(@, ret)]))
                  ELSE IF peek_token(0) # "rparen"
                  THEN Do(error(<<", or ) expected">>, location) @@ Return(NullNode))
                  ELSE Do(Goto([f EXCEPT !.at = "loop", !.print = push_back(@, ret)]))

\* std::unique_ptr<Variable>::~unique_ptr on a variable still owned: delete
delete_variable(objects, var) == [objects EXCEPT ![var].alive = FALSE]

\* Parser::parse_declaration
parse_declaration ==
    /\ Running("parse_declaration")
    /\ LET f == Top
       IN  CASE f.at = "begin" ->
                  LET tp == extract_token
                      name == at(tokens_, pos_ + 1)
                      type == token_to_type(tp.kind)
                      created == Append(variables,
                                        VariableObject(type, name.value, name.location,
                                                       name.location))
                      ptr == Len(created)
                  IN  IF debug.parser /\ (~token_to_type_checks(tp.kind) \/ type = "Void")
                      THEN Do(Abort)
                      ELSE IF name.kind # "ident"
                      THEN Do(consume_token(2)
                              @@ error(<<"identifier expected">>, name.location)
                              @@ Return(NullNode))
                      ELSE IF at(tokens_, pos_ + 2).kind # "assign"
                      THEN Do(consume_token(2)
                              @@ [variables |-> delete_variable(created, ptr)]
                              @@ Return(NullNode))
                      ELSE Do(consume_token(3)
                              @@ [variables |-> created]
                              @@ Call([fn |-> f.fn, at |-> "expr", name |-> name,
                                       ptr |-> ptr],
                                      parse_expression))
             [] f.at = "expr" ->
                  IF IsNull(ret)
                  THEN Do([variables |-> delete_variable(variables, f.ptr)]
                          @@ Return(NullNode))
                  ELSE IF debug.ast /\ ~StoreNodeChecks(f.ptr, ret, "assign")
                  THEN Do([scopes |-> define_variable_scopes(scopes, variables, scope_, f.ptr),
                           variables |-> define_variable_vars(variables, scope_, f.ptr)]
                          @@ Abort)
                  ELSE Do([scopes |-> define_variable_scopes(scopes, variables, scope_, f.ptr),
                           variables |-> define_variable_vars(variables, scope_, f.ptr)]
                          @@ Return(StoreNode(f.ptr, ret, "assign", f.name.location,
                                              location)))

\* a parse_binary that hands back an operand no operator follows
parse_binary_lenient ==
    /\ Running("parse_binary")
    /\ LET f == Top
           prec == get_precedence(peek_token(0))
       IN  CASE f.at = "begin" ->
                  Do(Call([f EXCEPT !.at = "unary"], Frame("parse_unary", "begin")))
             [] f.at = "unary" ->
                  IF IsNull(ret) THEN Do(Return(NullNode))
                  ELSE IF prec <= 0
                  THEN Do(Return(ret))
                  ELSE Do(Goto([fn |-> f.fn, at |-> "loop", prev |-> f.prev,
                                left |-> ret, prec |-> prec]))
             [] f.at = "loop" ->
                  IF f.prec < f.prev THEN Do(Return(f.left))
                  ELSE IF prec = f.prec
                  THEN Do(consume_token(1)
                          @@ Call([fn |-> f.fn, at |-> "right", prev |-> f.prev,
                                   left |-> f.left, prec |-> f.prec, op |-> extract_token],
                                  parse_expression))
                  ELSE Do(Goto([f EXCEPT !.prec = prec]))
             [] f.at = "right" ->
                  IF IsNull(ret) THEN Do(Return(NullNode))
                  ELSE \E order \in {"operand", "move"} :
                         IF order = "move" THEN Do(Segv)
                         ELSE IF debug.ast /\ ~BinaryExprNodeChecks(f.op.kind, f.left, ret)
                         THEN Do(Abort)
                         ELSE Do(Goto([fn |-> f.fn, at |-> "loop", prev |-> f.prev,
                                       prec |-> f.prec,
                                       left |-> BinaryExprNode(f.op.kind, f.left, ret,
                                                               f.left.start, ret.finish)]))

\* Parser::parse_binary(prev)
parse_binary ==
    /\ Running("parse_binary")
    /\ LET f == Top
           prec == get_precedence(peek_token(0))
       IN  CASE f.at = "begin" ->
                  Do(Call([f EXCEPT !.at = "unary"], Frame("parse_unary", "begin")))
             [] f.at = "unary" ->
                  IF IsNull(ret) THEN Do(Return(NullNode))
                  ELSE IF prec <= 0
                  THEN Do(error(<<"operator expected">>, location) @@ Return(NullNode))
                  ELSE Do(Goto([fn |-> f.fn, at |-> "loop", prev |-> f.prev,
                                left |-> ret, prec |-> prec]))
             [] f.at = "loop" ->
                  IF f.prec < f.prev THEN Do(Return(f.left))
                  ELSE IF prec = f.prec
                  THEN Do(consume_token(1)
                          @@ Call([fn |-> f.fn, at |-> "right", prev |-> f.prev,
                                   left |-> f.left, prec |-> f.prec, op |-> extract_token],
                                  parse_expression))
                  ELSE Do(Goto([f EXCEPT !.prec = prec]))
             [] f.at = "right" ->
                  IF IsNull(ret) THEN Do(Return(NullNode))
                  ELSE \E order \in {"operand", "move"} :
                         IF order = "move" THEN Do(Segv)
                         ELSE IF debug.ast /\ ~BinaryExprNodeChecks(f.op.kind, f.left, ret)
                         THEN Do(Abort)
                         ELSE Do(Goto([fn |-> f.fn, at |-> "loop", prev |-> f.prev,
                                       prec |-> f.prec,
                                       left |-> BinaryExprNode(f.op.kind, f.left, ret,
                                                               f.left.start, ret.finish)]))

\* Parser::parse_unary
parse_unary ==
    /\ Running("parse_unary")
    /\ LET f == Top
           tok == extract_token
       IN  CASE f.at = "begin" ->
                  IF is_unary(tok.kind)
                  THEN Do(consume_token(1)
                          @@ Call([fn |-> f.fn, at |-> "operand", op |-> tok],
                                  Frame("parse_unary", "begin")))
                  ELSE IF tok.kind = "ident" /\ peek_token(1) = "lparen"
                  THEN Do(TailCall(Frame("parse_call", "begin")))
                  ELSE IF tok.kind = "ident"
                  THEN LET var == lookup_variable(scopes, scope_, tok.value)
                       IN  IF var = 0
                           THEN Do(consume_token(1)
                                   @@ error(<<"undefined variable">>, tok.location)
                                   @@ Return(NullNode))
                           ELSE IF debug.ast /\ ~LoadNodeChecks(var)
                           THEN Do(consume_token(1) @@ Abort)
                           ELSE Do(consume_token(1)
                                   @@ Return(LoadNode(var, tok.location, tok.location)))
                  ELSE IF tok.kind = "double_l"
                  THEN Do(TailCall(Frame("parse_double", "begin")))
                  ELSE IF tok.kind = "int_l"
                  THEN Do(TailCall(Frame("parse_int", "begin")))
                  ELSE IF tok.kind = "string_l"
                  THEN Do(consume_token(1)
                          @@ Return(StringLitNode(tok.value, tok.location, tok.location)))
                  ELSE IF tok.kind = "lparen"
                  THEN Do(consume_token(1)
                          @@ Call([fn |-> f.fn, at |-> "paren"], parse_expression))
                  ELSE Do(error(<<"unexpected token">>, location) @@ Return(NullNode))
             [] f.at = "operand" ->
                  IF IsNull(ret) THEN Do(Return(NullNode))
                  ELSE ConstructMoved(UnaryExprNodeChecks(f.op.kind, ret),
                                      UnaryExprNode(f.op.kind, ret, f.op.location,
                                                    ret.finish))
             [] f.at = "paren" ->
                  IF IsNull(ret) THEN Do(Return(NullNode))
                  ELSE IF peek_token(0) # "rparen"
                  THEN Do(error(<<") expected">>, location) @@ Return(NullNode))
                  ELSE Do(consume_token(1) @@ Return(ret))

\* Parser::parse_int
parse_int ==
    /\ Running("parse_int")
    /\ LET tok == extract_token
           r == strtol(tok.value)
       IN  IF debug.parser /\ tok.kind # "int_l" THEN Do(Abort)
           ELSE IF r.endptr # Len(tok.value) + 1
           THEN Do(consume_token(1)
                   @@ error(<<"integer literal expected">>, tok.location)
                   @@ Return(NullNode))
           ELSE Do(consume_token(1)
                   @@ Return(IntLitNode(r.num, tok.location, tok.location)))

\* Parser::parse_double
parse_double ==
    /\ Running("parse_double")
    /\ LET tok == extract_token
           r == strtod(tok.value)
       IN  IF debug.parser /\ tok.kind # "double_l" THEN Do(Abort)
           ELSE IF r.endptr # Len(tok.value) + 1
           THEN Do(consume_token(1)
                   @@ error(<<"double literal expected">>, tok.location)
                   @@ Return(NullNode))
           ELSE Do(consume_token(1)
                   @@ Return(DoubleLitNode(r, tok.location, tok.location)))

\* the recursion has used up the stack
stack_overflow ==
    /\ pc = "run"
    /\ Len(stack) >= MaxDepth
    /\ Do([pc |-> "overflow"])

\* ------------------------------------------------------------ specification
\* Parser::Parser() sets scope_ only; status_ and pos_ hold whatever the
\* memory held, and tokens_ is empty
InitParser ==
    /\ debug \in [token : BOOLEAN, parser : BOOLEAN, ast : BOOLEAN]
    /\ pc = "idle"
    /\ code = [tokens |-> <<>>, status |-> DefaultStatus]
    /\ stack = <<>>
    /\ ret = NullNode
    /\ scope_ = 0
    /\ status_ \in 0..1
    /\ tokens_ = <<>>
    /\ pos_ \in 0..1
    /\ status = DefaultStatus
    /\ scopes = <<>>
    /\ variables = <<>>
    /\ results = <<>>
    /\ deleted = EmptyBag
    /\ scanner = [code_ |-> <<>>, pos_ |-> 0, line_ |-> 0, offset_ |-> 0,
                  tokens_ |-> <<>>, status_ |-> DefaultStatus]

\* one parse() call on a fresh Parser
Init == InitParser /\ reuse = FALSE /\ todo = 1

Next ==
    \/ parse
    \/ parse_toplevel
    \/ parse_block
    \/ parse_statement
    \/ parse_assignment
    \/ parse_call
    \/ parse_function
    \/ parse_while
    \/ parse_for
    \/ parse_if
    \/ parse_return
    \/ parse_print
    \/ parse_declaration
    \/ parse_binary
    \/ parse_unary
    \/ parse_int
    \/ parse_double
    \/ stack_overflow

Spec == Init /\ [][Next]_vars


\* Parser::Parser(): another Parser object takes the place of the one used so
\* far; its scope_ is null, and status_ and pos_ hold whatever the memory held
new_Parser ==
    /\ pc = "idle"
    /\ todo > 0
    /\ results # <<>>
    /\ \E garbage \in [status_ : 0..1, pos_ : 0..1] :
         Do([scope_ |-> 0, tokens_ |-> <<>>] @@ garbage)

NextReuse == Next \/ new_Parser

\* MaxParses parse() calls, each on the Parser used before or on a new one
InitReuse == InitParser /\ reuse = TRUE /\ todo = MaxParses

SpecReuse == InitReuse /\ [][NextReuse]_vars

\* ---------------------------------------------- the Scope interface by itself
VarNames == {<<"x">>, <<"y">>}

FunNames == {<<"f">>}

\* the functions the scopes of heap hold
RECURSIVE FunCount(_, _)
FunCount(heap, n) ==
    IF n = 0 THEN 0 ELSE Cardinality(DOMAIN heap[n].functions_) + FunCount(heap, n - 1)

InitScope ==
    /\ InitParser
    /\ debug = [token |-> FALSE, parser |-> FALSE, ast |-> FALSE]
    /\ status_ = 0
    /\ pos_ = 0
    /\ reuse = FALSE
    /\ todo = 0

\* new Scope(owner), owner null or a scope
new_Scope ==
    /\ pc = "idle"
    /\ Len(scopes) < MaxScopes
    /\ \E owner \in 0..Len(scopes) :
         Do([scopes |-> NewScope(scopes, owner), ret |-> NullNode])

\* scope->define_variable(new Variable(type, name))
call_define_variable ==
    /\ pc = "idle"
    /\ Len(variables) + FunCount(scopes, Len(scopes)) < MaxDefs
    /\ \E scope \in DOMAIN scopes, name \in VarNames :
         LET created == Append(variables, VariableObject("Int", name, NoLocation, NoLocation))
             var == Len(created)
         IN  Do([scopes |-> define_variable_scopes(scopes, created, scope, var),
                 variables |-> define_variable_vars(created, scope, var),
                 ret |-> NullNode])

\* scope->define_function(new Function(signature, body))
call_define_function ==
    /\ pc = "idle"
    /\ Len(variables) + FunCount(scopes, Len(scopes)) < MaxDefs
    /\ \E scope \in DOMAIN scopes, name \in FunNames :
         /\ name \notin DOMAIN scopes[scope].functions_
         /\ Do([scopes |-> define_function(scopes, scope,
                               Function(Signature("Void", name),
                                        Block(scope), NoLocation, NoLocation)),
                ret |-> NullNode])

\* scope->lookup_variable(name)
call_lookup_variable ==
    \E scope \in DOMAIN scopes, name \in VarNames :
        Do([ret |-> [tag |-> "lookup_variable", scope |-> scope, name |-> name,
                     found |-> lookup_variable(scopes, scope, name)]])

\* scope->lookup_function(name)
call_lookup_function ==
    \E scope \in DOMAIN scopes, name \in FunNames :
        Do([ret |-> [tag |-> "lookup_function", scope |-> scope, name |-> name,
                     found |-> lookup_function(scopes, scope, name)]])

NextScope ==
    \/ new_Scope
    \/ call_define_variable
    \/ call_define_function
    \/ call_lookup_variable
    \/ call_lookup_function

SpecScope == InitScope /\ [][NextScope]_vars

\* ------------------------- a Program built and destroyed through ast.hpp
\* the designators of the objects recorded in deleted
VariableAt(var) == [tag |-> "Variable", id |-> var]

ScopeAt(scope) == [tag |-> "Scope", id |-> scope]

FunctionAt(scope, name) == [tag |-> "Function", scope |-> scope, name |-> name]

\* new Function(signature, body), its body a Block with one LoadNode of a
\* variable found from scope, handed to scope->define_function
new_Function ==
    /\ pc = "idle"
    /\ Len(variables) + FunCount(scopes, Len(scopes)) < MaxDefs
    /\ \E scope \in DOMAIN scopes, name \in FunNames, target \in VarNames :
         LET var == lookup_variable(scopes, scope, target)
             body == push_back(Block(scope), LoadNode(var, NoLocation, NoLocation))
         IN  /\ var # 0
             /\ name \notin DOMAIN scopes[scope].functions_
             /\ Do([scopes |-> define_function(scopes, scope,
                                   Function(Signature("Void", name), body,
                                            NoLocation, NoLocation)),
                    ret |-> NullNode])

\* Program::Program(fun, scope): scope is a root, fun the top-level function
\* whose body loads the variables of the scope
new_Program ==
    /\ pc = "idle"
    /\ \E scope \in DOMAIN scopes :
         LET held == scopes[scope].variables_
             loads == [i \in 1..Len(variables) |->
                         LoadNode(i, NoLocation, NoLocation)]
             body == [Block(scope) EXCEPT
                        !.kids = SelectSeq(loads,
                                     LAMBDA n : \E name \in DOMAIN held :
                                                   held[name] = n.var)]
         IN  /\ scopes[scope].owner = 0
             /\ Do([pc |-> "built",
                    ret |-> Program(Function(Signature("Void", <<"_start">>), body,
                                             NoLocation, NoLocation), scope)])

\* Program::~Program up to the call of Scope::~Scope: delete top_
delete_Program ==
    /\ pc = "built"
    /\ Do([pc |-> "destroy",
           ret |-> Program(NullNode, ret.scope_),
           stack |-> <<[fn |-> "~Scope", at |-> "variables",
                        scope |-> ret.scope_, child |-> 1]>>])

\* Scope::~Scope, one loop at a time: the variables, the functions, the
\* children; the memory of the scope goes when the destructor returns
delete_Scope ==
    /\ pc = "destroy"
    /\ stack # <<>>
    /\ LET f == Top
           self == scopes[f.scope]
           held == { self.variables_[name] : name \in DOMAIN self.variables_ }
       IN  CASE f.at = "variables" ->
                  Do([variables |-> [v \in DOMAIN variables |->
                                       IF v \in held
                                       THEN [variables[v] EXCEPT !.alive = FALSE]
                                       ELSE variables[v]],
                      deleted |-> deleted (+) SetToBag({ VariableAt(v) : v \in held })]
                     @@ Goto([f EXCEPT !.at = "functions"]))
             [] f.at = "functions" ->
                  Do([deleted |-> deleted (+) SetToBag({ FunctionAt(f.scope, name) :
                                               name \in DOMAIN self.functions_ })]
                     @@ Goto([f EXCEPT !.at = "children"]))
             [] f.at = "children" ->
                  IF f.child <= Len(self.children_)
                  THEN Do(Call([f EXCEPT !.child = @ + 1],
                               [fn |-> "~Scope", at |-> "variables",
                                scope |-> self.children_[f.child], child |-> 1]))
                  ELSE Do([stack |-> SubSeq(stack, 1, Len(stack) - 1),
                           deleted |-> deleted (+) SetToBag({ScopeAt(f.scope)}),
                           pc |-> IF Len(stack) = 1 THEN "destroyed" ELSE pc])

NextProgram ==
    \/ new_Scope
    \/ call_define_variable
    \/ new_Function
    \/ new_Program
    \/ delete_Program
    \/ delete_Scope

SpecProgram == InitScope /\ [][NextProgram]_vars

\* ------------------------------- the constructors of ast.hpp by themselves
\* the token kinds a caller can hand over
TokenKinds == { Kind[i] : i \in DOMAIN Kind } \cup UnlistedKinds

\* the operands a caller can hand over: nullptr or a node
Operands == {NullNode, IntLitNode(1, NoLocation, NoLocation)}

\* new Variable(type, name)
new_Variable ==
    /\ pc = "idle"
    /\ Len(variables) < MaxDefs
    /\ \E name \in VarNames :
         Do([variables |-> Append(variables,
                                  VariableObject("Int", name, NoLocation, NoLocation))])

\* new BinaryExprNode(kind, left, right, start, finish): the call, then the
\* constructor with its assertions; pc is done when it has returned
new_BinaryExprNode ==
    IF pc = "idle"
    THEN \E kind \in TokenKinds, left \in Operands, right \in Operands :
           Do([pc |-> "new", ret |-> NullNode,
               stack |-> <<[fn |-> "BinaryExprNode", kind |-> kind, left |-> left,
                            right |-> right]>>])
    ELSE /\ pc = "new"
         /\ Top.fn = "BinaryExprNode"
         /\ IF debug.ast /\ ~BinaryExprNodeChecks(Top.kind, Top.left, Top.right)
            THEN Do(Abort)
            ELSE Do([pc |-> "done", stack |-> <<>>,
                     ret |-> BinaryExprNode(Top.kind, Top.left, Top.right,
                                            NoLocation, NoLocation)])

\* new UnaryExprNode(kind, node, start, finish)
new_UnaryExprNode ==
    IF pc = "idle"
    THEN \E kind \in TokenKinds, node \in Operands :
           Do([pc |-> "new", ret |-> NullNode,
               stack |-> <<[fn |-> "UnaryExprNode", kind |-> kind, node |-> node]>>])
    ELSE /\ pc = "new"
         /\ Top.fn = "UnaryExprNode"
         /\ IF debug.ast /\ ~UnaryExprNodeChecks(Top.kind, Top.node)
            THEN Do(Abort)
            ELSE Do([pc |-> "done", stack |-> <<>>,
                     ret |-> UnaryExprNode(Top.kind, Top.node, NoLocation, NoLocation)])

\* new StoreNode(var, expr, kind, start, finish)
new_StoreNode ==
    IF pc = "idle"
    THEN \E var \in 0..Len(variables), expr \in Operands, kind \in TokenKinds :
           Do([pc |-> "new", ret |-> NullNode,
               stack |-> <<[fn |-> "StoreNode", var |-> var, expr |-> expr,
                            kind |-> kind]>>])
    ELSE /\ pc = "new"
         /\ Top.fn = "StoreNode"
         /\ IF debug.ast /\ ~StoreNodeChecks(Top.var, Top.expr, Top.kind)
            THEN Do(Abort)
            ELSE Do([pc |-> "done", stack |-> <<>>,
                     ret |-> StoreNode(Top.var, Top.expr, Top.kind,
                                       NoLocation, NoLocation)])

InitNodes ==
    /\ InitParser
    /\ status_ = 0
    /\ pos_ = 0
    /\ reuse = FALSE
    /\ todo = 0

NextNodes ==
    \/ new_Variable
    \/ new_BinaryExprNode
    \/ new_UnaryExprNode
    \/ new_StoreNode

SpecNodes == InitNodes /\ [][NextNodes]_vars

\* ------------------------------------------------- the Scanner by itself
\* what peek_char answers beyond the end of the code: '\0'
NUL == "NUL"

\* longest source text given to Scanner::scan
MaxCode == 5

\* the characters the source texts are written in
ScanChars == {"'", "\\", "n", "/", "\n", " ", "1"}

Codes == UNION { [1..n -> ScanChars] : n \in 0..MaxCode }

\* the characters of the token values of the token table
Spelling ==
    ("||" :> <<"|", "|">>) @@ ("&&" :> <<"&", "&">>) @@ ("==" :> <<"=", "=">>) @@
    ("!=" :> <<"!", "=">>) @@ (">=" :> <<">", "=">>) @@ ("<=" :> <<"<", "=">>) @@
    (".." :> <<".", ".">>) @@ ("+=" :> <<"+", "=">>) @@ ("-=" :> <<"-", "=">>) @@
    ("(" :> <<"(">>) @@ (")" :> <<")">>) @@ ("{" :> <<"{">>) @@ ("}" :> <<"}">>) @@
    ("=" :> <<"=">>) @@ ("|" :> <<"|">>) @@ ("&" :> <<"&">>) @@ ("^" :> <<"^">>) @@
    ("!" :> <<"!">>) @@ (">" :> <<">">>) @@ ("<" :> <<"<">>) @@ ("+" :> <<"+">>) @@
    ("-" :> <<"-">>) @@ ("*" :> <<"*">>) @@ ("/" :> <<"/">>) @@ ("%" :> <<"%">>) @@
    ("," :> <<",">>) @@ (";" :> <<";">>) @@
    ("double" :> <<"d", "o", "u", "b", "l", "e">>) @@ ("int" :> <<"i", "n", "t">>) @@
    ("string" :> <<"s", "t", "r", "i", "n", "g">>) @@ ("for" :> <<"f", "o", "r">>) @@
    ("while" :> <<"w", "h", "i", "l", "e">>) @@ ("if" :> <<"i", "f">>) @@
    ("print" :> <<"p", "r", "i", "n", "t">>) @@
    ("function" :> <<"f", "u", "n", "c", "t", "i", "o", "n">>) @@
    ("native" :> <<"n", "a", "t", "i", "v", "e">>) @@
    ("return" :> <<"r", "e", "t", "u", "r", "n">>) @@
    ("void" :> <<"v", "o", "i", "d">>) @@ ("in" :> <<"i", "n">>) @@
    ("else" :> <<"e", "l", "s", "e">>)

\* FOR_TOKENS: the punctuators, then the keywords, each with its value
FOR_TOKENS ==
    [i \in 1..(Len(Punctuators) + Len(Keywords)) |->
        IF i <= Len(Punctuators)
        THEN <<Punctuators[i][1], Punctuators[i][2]>>
        ELSE Keywords[i - Len(Punctuators)]]

\* Token::get_token_kind: the first token of the table whose value is value
get_token_kind(value) ==
    LET same == { i \in DOMAIN FOR_TOKENS : Spelling[FOR_TOKENS[i][2]] = value }
    IN  IF value = <<>> \/ same = {} THEN "undef"
        ELSE FOR_TOKENS[CHOOSE i \in same : \A j \in same : i <= j][1]

\* detail::is_letter
is_letter(ch) ==
    ch \in {"A", "B", "C", "D", "E", "F", "G", "H", "I", "J", "K", "L", "M",
            "N", "O", "P", "Q", "R", "S", "T", "U", "V", "W", "X", "Y", "Z",
            "a", "b", "c", "d", "e", "f", "g", "h", "i", "j", "k", "l", "m",
            "n", "o", "p", "q", "r", "s", "t", "u", "v", "w", "x", "y", "z",
            "_"}

\* detail::is_digit
is_digit(ch) == IsDigit(ch)

\* detail::is_whitespace
is_whitespace(ch) == ch = " " \/ ch = "\t" \/ ch = "\r" \/ ch = "\n"

\* detail::get_unescaped
get_unescaped(ch) ==
    CASE ch = "n" -> "\n"
      [] ch = "t" -> "\t"
      [] ch = "r" -> "\r"
      [] ch = "\\" -> "\\"
      [] ch = "'" -> "'"
      [] OTHER -> ch

\* Scanner::reset(&tokens, &status, &code): the members of the Scanner, with
\* the token list and the Status that tokens_ and status_ point to
reset(toks, code_text) ==
    [code_ |-> code_text, pos_ |-> 0, line_ |-> 0, offset_ |-> 0,
     tokens_ |-> toks, status_ |-> DefaultStatus]

\* Scanner::peek_char
peek_char(s, off) ==
    IF s.pos_ + off < Len(s.code_) THEN s.code_[s.pos_ + off + 1] ELSE NUL

\* Scanner::get_char: the scanner after it; the character is peek_char(s, 0)
get_char(s) ==
    LET ch == peek_char(s, 0)
    IN  [s EXCEPT !.pos_ = @ + 1,
                  !.offset_ = IF ch = "\n" THEN 0 ELSE @ + 1,
                  !.line_ = IF ch = "\n" THEN @ + 1 ELSE @]

\* Scanner::skip_chars
RECURSIVE skip_chars(_, _)
skip_chars(s, n) == IF n = 0 THEN s ELSE skip_chars(get_char(s), n - 1)

\* Scanner::current_location
current_location(s) == Location(s.line_, s.offset_)

\* Scanner::error
scanner_error(s, message, loc) == [s EXCEPT !.status_ = Status("ERROR", message, loc)]

\* the while loop of scan_string: the scanner and the value after it
RECURSIVE scan_string_loop(_, _)
scan_string_loop(s, value) ==
    IF peek_char(s, 0) # NUL /\ peek_char(s, 0) # "'"
    THEN IF peek_char(s, 0) = "\\" /\ peek_char(s, 1) # NUL
         THEN LET s1 == get_char(s)
                  s2 == get_char(s1)
                  s3 == get_char(s2)
              IN  scan_string_loop(s3, value \o <<get_unescaped(peek_char(s1, 0)),
                                                  peek_char(s2, 0)>>)
         ELSE scan_string_loop(get_char(s), Append(value, peek_char(s, 0)))
    ELSE [s |-> s, value |-> value]

\* Scanner::scan_string
scan_string(s) ==
    LET loc == current_location(s)
        body == scan_string_loop(get_char(s), <<>>)
    IN  IF peek_char(body.s, 0) = "'"
        THEN [get_char(body.s) EXCEPT
                 !.tokens_ = Append(@, Token("string_l", body.value, loc))]
        ELSE scanner_error(body.s, <<"unexpected end of file">>, current_location(body.s))

\* while (is_digit(peek_char())) value += get_char()
RECURSIVE scan_digits(_, _)
scan_digits(s, value) ==
    IF is_digit(peek_char(s, 0))
    THEN scan_digits(get_char(s), Append(value, peek_char(s, 0)))
    ELSE [s |-> s, value |-> value]

\* Scanner::scan_number
scan_number(s) ==
    LET loc == current_location(s)
        whole == scan_digits(s, <<>>)
        next == peek_char(whole.s, 0)
    IN  IF next = "e" \/ next = "."
        THEN LET signed == next = "e" /\ peek_char(whole.s, 1) \in {"-", "+"}
                 mark == IF signed
                         THEN [s |-> get_char(whole.s), value |-> Append(whole.value, next)]
                         ELSE whole
                 point == [s |-> get_char(mark.s),
                           value |-> Append(mark.value, peek_char(mark.s, 0))]
                 rest == scan_digits(point.s, point.value)
             IN  [rest.s EXCEPT !.tokens_ = Append(@, Token("double_l", rest.value, loc))]
        ELSE [whole.s EXCEPT !.tokens_ = Append(@, Token("int_l", whole.value, loc))]

\* while (is_letter(peek_char()) || is_digit(peek_char())) value += get_char()
RECURSIVE scan_word(_, _)
scan_word(s, value) ==
    IF is_letter(peek_char(s, 0)) \/ is_digit(peek_char(s, 0))
    THEN scan_word(get_char(s), Append(value, peek_char(s, 0)))
    ELSE [s |-> s, value |-> value]

\* Scanner::scan_ident
scan_ident(s) ==
    LET loc == current_location(s)
        word == scan_word(s, <<>>)
        kind == get_token_kind(word.value)
    IN  [word.s EXCEPT
             !.tokens_ = Append(@, Token(IF kind = "undef" THEN "ident" ELSE kind,
                                         word.value, loc))]

\* while (peek_char() != '\0' && get_char() != '\n');
RECURSIVE skip_line(_)
skip_line(s) ==
    IF peek_char(s, 0) = NUL THEN s
    ELSE IF peek_char(s, 0) = "\n" THEN get_char(s)
    ELSE skip_line(get_char(s))

\* Scanner::skip_comment
skip_comment(s) ==
    IF peek_char(s, 0) = "/" /\ peek_char(s, 1) = "/" THEN skip_line(s) ELSE s

\* Scanner::skip_whitespaces
RECURSIVE skip_whitespaces(_)
skip_whitespaces(s) ==
    IF is_whitespace(peek_char(s, 0)) THEN skip_whitespaces(get_char(s)) ELSE s

\* scan_impl, the token table tried on val = { ch, peek_char(1), '\0' }: the
\* first token whose value val begins with, undef when there is none
scan_kind(s) ==
    LET val == IF peek_char(s, 1) = NUL THEN <<peek_char(s, 0)>>
               ELSE <<peek_char(s, 0), peek_char(s, 1)>>
        found == { i \in DOMAIN FOR_TOKENS :
                     LET spelt == Spelling[FOR_TOKENS[i][2]]
                     IN  /\ Len(spelt) > 0
                         /\ Len(spelt) <= Len(val)
                         /\ SubSeq(val, 1, Len(spelt)) = spelt }
    IN  IF found = {} THEN "undef"
        ELSE FOR_TOKENS[CHOOSE i \in found : \A j \in found : i <= j][1]

\* scan_impl, the end of an iteration that met no letter, digit or quote
scan_punctuator(s) ==
    LET kind == scan_kind(s)
        loc == current_location(s)
    IN  IF kind = "undef" THEN scanner_error(s, <<"undefined token">>, loc)
        ELSE LET moved == skip_chars(s, Len(Spelling[get_token_value(kind)[1]]))
             IN  [moved EXCEPT !.tokens_ = Append(@, Token(kind, get_token_value(kind), loc))]

\* scan_impl, what an iteration goes on with after the blanks and the comment
scan_branch(s) ==
    LET ch == peek_char(s, 0)
    IN  IF ch = NUL THEN "continue"
        ELSE IF is_letter(ch) THEN "scan_ident"
        ELSE IF is_digit(ch) THEN "scan_number"
        ELSE IF ch = "'" THEN "scan_string"
        ELSE "punctuator"

\* scan_impl, one iteration of its loop
scan_iteration(s) ==
    LET w == skip_comment(skip_whitespaces(s))
        branch == scan_branch(w)
    IN  CASE branch = "continue" -> w
          [] branch = "scan_ident" -> scan_ident(w)
          [] branch = "scan_number" -> scan_number(w)
          [] branch = "scan_string" -> scan_string(w)
          [] branch = "punctuator" -> scan_punctuator(w)

\* Scanner::scan_impl
RECURSIVE scan_impl(_)
scan_impl(s) ==
    IF s.status_.code # "ERROR" /\ peek_char(s, 0) # NUL
    THEN scan_impl(scan_iteration(s))
    ELSE s

\* Scanner().scan(code, tokens, status) on an empty token list
scan(code_text) == scan_impl(reset(<<>>, code_text))

\* Scanner::scan(code, tokens, status): called by the environment, and
\* resumed when scan_impl has returned
Scanner_scan ==
    IF pc = "idle"
    THEN \E code_text \in Codes :
           Do([scanner |-> reset(scanner.tokens_, code_text),
               pc |-> "run",
               stack |-> <<Frame("scan", "scan_impl"), Frame("scan_impl", "loop")>>])
    ELSE /\ Running("scan")
         /\ Do([pc |-> "done", stack |-> <<>>])

\* Scanner::scan_impl, one iteration up to the call it makes
Scanner_scan_impl ==
    /\ Running("scan_impl")
    /\ IF ~(scanner.status_.code # "ERROR" /\ peek_char(scanner, 0) # NUL)
       THEN Do(Return(NullNode))
       ELSE LET w == skip_comment(skip_whitespaces(scanner))
                branch == scan_branch(w)
            IN  CASE branch = "continue" -> Do([scanner |-> w])
                  [] branch = "punctuator" ->
                       IF scan_kind(w) = "undef"
                       THEN Do([scanner |-> scan_punctuator(w)] @@ Return(NullNode))
                       ELSE Do([scanner |-> scan_punctuator(w)])
                  [] OTHER -> Do([scanner |-> w] @@ Call(Top, Frame(branch, "begin")))

\* Scanner::scan_ident
Scanner_scan_ident ==
    /\ Running("scan_ident")
    /\ Do([scanner |-> scan_ident(scanner)] @@ Return(NullNode))

\* Scanner::scan_number
Scanner_scan_number ==
    /\ Running("scan_number")
    /\ Do([scanner |-> scan_number(scanner)] @@ Return(NullNode))

\* Scanner::scan_string
Scanner_scan_string ==
    /\ Running("scan_string")
    /\ Do([scanner |-> scan_string(scanner)] @@ Return(NullNode))

NextScan ==
    \/ Scanner_scan
    \/ Scanner_scan_impl
    \/ Scanner_scan_ident
    \/ Scanner_scan_number
    \/ Scanner_scan_string

\* a Scanner and an empty token list; scanner.cpp has no assert, and the
\* Token(kind, loc) it builds is of a kind of the table
SpecScan == InitScope /\ [][NextScan]_vars

\* ------------------------------------------------------------------ claims
Range(seq) == { seq[i] : i \in DOMAIN seq }

\* the outcomes of the parse() calls made on the text ws
Returned(ws) == { r \in Range(results) : r.code = Scanned(ws) }

\* parse() handed back a Program with a top-level function and status SUCCESS
Succeeded(r) ==
    /\ r.status.code = "SUCCESS"
    /\ ~IsNull(r.program)
    /\ ~IsNull(r.program.top_)

\* the statements of the top-level function of a Program
Statements(r) == r.program.top_.body.kids

IsInt(n, value) == n.tag = "IntLit" /\ n.num = value

IsBinary(n, kind) == n.tag = "BinaryExpr" /\ n.kind = kind /\ Len(n.kids) = 2

IsUnary(n, kind) == n.tag = "UnaryExpr" /\ n.kind = kind /\ Len(n.kids) = 1

\* C1: every parse() call ends in exactly one of two outcomes: a Program with
\* a non-null top-level Function and status SUCCESS, or no Program and status
\* ERROR; a Program never comes with status ERROR.
C1_ParseOutcome ==
    \A r \in Range(results) :
        \/ Succeeded(r)
        \/ IsNull(r.program) /\ r.status.code = "ERROR"

\* C2: 1+2*3 parses successfully into Add(IntLit 1, Mul(IntLit 2, IntLit 3)).
C2_Precedence ==
    \A r \in Returned(Src_precedence) :
        /\ Succeeded(r)
        /\ Len(Statements(r)) = 1
        /\ LET e == Statements(r)[1]
           IN  /\ IsBinary(e, "add")
               /\ IsInt(e.kids[1], 1)
               /\ IsBinary(e.kids[2], "mul")
               /\ IsInt(e.kids[2].kids[1], 2)
               /\ IsInt(e.kids[2].kids[2], 3)

\* C3: 1+2-3 parses successfully into Sub(Add(1, 2), 3).
C3_LeftAssociativity ==
    \A r \in Returned(Src_leftassoc) :
        /\ Succeeded(r)
        /\ Len(Statements(r)) = 1
        /\ LET e == Statements(r)[1]
           IN  /\ IsBinary(e, "sub")
               /\ IsBinary(e.kids[1], "add")
               /\ IsInt(e.kids[1].kids[1], 1)
               /\ IsInt(e.kids[1].kids[2], 2)
               /\ IsInt(e.kids[2], 3)

\* C4: -1+2 parses successfully into Add(Neg(1), 2), and a prefix operator
\* applied to a prefix operator, -!1, into Neg(Not(1)).
C4_UnaryBindsTighter ==
    /\ \A r \in Returned(Src_unary) :
           /\ Succeeded(r)
           /\ Len(Statements(r)) = 1
           /\ LET e == Statements(r)[1]
              IN  /\ IsBinary(e, "add")
                  /\ IsUnary(e.kids[1], "sub")
                  /\ IsInt(e.kids[1].kids[1], 1)
                  /\ IsInt(e.kids[2], 2)
    /\ \A r \in Returned(Src_negnot) :
           /\ Succeeded(r)
           /\ Len(Statements(r)) = 1
           /\ LET e == Statements(r)[1]
              IN  /\ IsUnary(e, "sub")
                  /\ IsUnary(e.kids[1], "lnot")
                  /\ IsInt(e.kids[1].kids[1], 1)

IsPrintOfLoad(n) ==
    n.tag = "Print" /\ Len(n.kids) = 1 /\ n.kids[1].tag = "Load" /\ n.kids[1].var # 0

\* C5: int x=1; { int x=2; print(x); } print(x); parses successfully, the
\* Load in the block references the Variable owned by the block's Scope and
\* the Load after it a different Variable, owned by the outer Scope.
C5_Shadowing ==
    \A r \in Returned(Src_shadowing) :
        /\ Succeeded(r)
        /\ Len(Statements(r)) = 3
        /\ LET block == Statements(r)[2]
               after == Statements(r)[3]
           IN  /\ block.tag = "Block"
               /\ Len(block.kids) = 2
               /\ IsPrintOfLoad(block.kids[2])
               /\ IsPrintOfLoad(after)
               /\ LET inner == block.kids[2].kids[1].var
                      outer == after.kids[1].var
                  IN  /\ inner # outer
                      /\ variables[inner].owner = block.scope
                      /\ variables[outer].owner = r.program.scope_
                      /\ block.scope # r.program.scope_

\* the scopes from scope up to the root, scope first
RECURSIVE OwnerChain(_, _)
OwnerChain(heap, scope) ==
    <<scope>> \o (IF heap[scope].owner = 0 THEN <<>> ELSE OwnerChain(heap, heap[scope].owner))

Least(indices) == CHOOSE i \in indices : \A j \in indices : i <= j

\* what a lookup of name from scope has to answer: the variable held by the
\* nearest scope of the owner chain that holds name, 0 when none does
NearestVariable(scope, name) ==
    LET chain == OwnerChain(scopes, scope)
        holding == { i \in DOMAIN chain : name \in DOMAIN scopes[chain[i]].variables_ }
    IN  IF holding = {} THEN 0 ELSE scopes[chain[Least(holding)]].variables_[name]

\* the same for functions: the nearest scope that holds a function name
NearestFunction(scope, name) ==
    LET chain == OwnerChain(scopes, scope)
        holding == { i \in DOMAIN chain : name \in DOMAIN scopes[chain[i]].functions_ }
    IN  IF holding = {} THEN 0 ELSE chain[Least(holding)]

\* C6: lookup_variable and lookup_function called on a scope S answer with the
\* definition held by the nearest scope on S's owner chain (S first) that
\* holds the name, with not-found when none does, and never with a definition
\* that only a sibling or a descendant of S holds.
C6_ScopeLookup ==
    /\ \A scope \in DOMAIN scopes, name \in VarNames :
         LET var == lookup_variable(scopes, scope, name)
         IN  /\ var = NearestVariable(scope, name)
             /\ var # 0 => /\ variables[var].owner \in Range(OwnerChain(scopes, scope))
                           /\ variables[var].name = name
    /\ \A scope \in DOMAIN scopes, name \in FunNames :
         LET fun == lookup_function(scopes, scope, name)
         IN  /\ fun = NearestFunction(scope, name)
             /\ fun # 0 => fun \in Range(OwnerChain(scopes, scope))
    /\ ret.tag = "lookup_variable" => ret.found = NearestVariable(ret.scope, ret.name)
    /\ ret.tag = "lookup_function" => ret.found = NearestFunction(ret.scope, ret.name)

\* a lookup answered from an ancestor while a scope off the owner chain holds
\* the same name as well
C6_Witness ==
    /\ ret.tag = "lookup_variable"
    /\ ret.found # 0
    /\ variables[ret.found].owner # ret.scope
    /\ \E other \in DOMAIN scopes :
         /\ other \notin Range(OwnerChain(scopes, ret.scope))
         /\ ret.name \in DOMAIN scopes[other].variables_

\* message holds text
Contains(message, text) ==
    \E i \in 1..Len(message) + 1, j \in 0..Len(message) : SubSeq(message, i, j) = text

\* parse_assignment is entered on a name no scope of the chain defines
AssignmentToUndefined ==
    /\ Running("parse_assignment")
    /\ Top.at = "begin"
    /\ lookup_variable(scopes, scope_, extract_token.value) = 0

\* the first statement of the text is an assignment; at the top level nothing
\* is defined yet, so its target is undefined
FirstIsAssignment(text) ==
    \E k \in 1..Len(text.tokens) - 1 :
        /\ text.tokens[k].kind = "ident"
        /\ is_assignment(text.tokens[k + 1].kind)
        /\ \A i \in 1..k - 1 : text.tokens[i].kind = "semi"

FirstIdent(text) ==
    text.tokens[CHOOSE k \in DOMAIN text.tokens : text.tokens[k].kind = "ident"]

\* a Store node in the tree n
RECURSIVE HasStore(_)
HasStore(n) ==
    IF IsNull(n) THEN FALSE
    ELSE IF n.tag = "Function" THEN HasStore(n.body)
    ELSE n.tag = "Store" \/ \E i \in DOMAIN n.kids : HasStore(n.kids[i])

\* C7: an assignment to a name that is not resolvable from the current scope
\* chain puts the status into ERROR, with a message that contains the
\* identifier and the location of the identifier token, and constructs no
\* Store node; a parse that starts with such a statement ends with that status.
C7_UndefinedAssignmentTarget ==
    /\ [][AssignmentToUndefined =>
            /\ status'.code = "ERROR"
            /\ Contains(status'.message, extract_token.value)
            /\ status'.location = extract_token.location
            /\ IsNull(ret')
            /\ stack' = SubSeq(stack, 1, Len(stack) - 1)]_vars
    /\ [](\A r \in Range(results) :
            FirstIsAssignment(r.code) =>
                /\ r.status.code = "ERROR"
                /\ Contains(r.status.message, FirstIdent(r.code).value)
                /\ r.status.location = FirstIdent(r.code).location
                /\ IsNull(r.program) \/ ~HasStore(r.program.top_))

\* y = 1; has been parsed and reported
C7_Witness ==
    \E r \in Returned(Src_undefined) :
        r.status = Status("ERROR", <<"unknown variable ", "y">>, Location(0, 0))

\* the braces still open after the first n tokens
RECURSIVE BraceDepth(_, _)
BraceDepth(tokens, n) ==
    IF n = 0 THEN 0
    ELSE LET before == BraceDepth(tokens, n - 1)
         IN  CASE tokens[n].kind = "lbrace" -> before + 1
               [] tokens[n].kind = "rbrace" /\ before > 0 -> before - 1
               [] OTHER -> before

\* a block is opened and the input ends before its closing brace
UnclosedBrace(text) == BraceDepth(text.tokens, Len(text.tokens)) > 0

C9_FunctionShape ==
    \A r \in Returned(Src_function) :
        /\ Succeeded(r)
        /\ <<"add">> \in DOMAIN scopes[r.program.scope_].functions_
        /\ LET fun == scopes[r.program.scope_].functions_[<<"add">>]
           IN  /\ fun.signature = [return_type |-> "Int", name |-> <<"add">>,
                                   params |-> << <<"Int", <<"a">>>>, <<"Int", <<"b">>>> >>]
               /\ Len(fun.body.kids) = 1
               /\ fun.body.kids[1].tag = "Return"
               /\ LET e == fun.body.kids[1].kids[1]
                  IN  /\ IsBinary(e, "add")
                      /\ e.kids[1].tag = "Load"
                      /\ e.kids[2].tag = "Load"
                      /\ variables[e.kids[1].var].name = <<"a">>
                      /\ variables[e.kids[2].var].name = <<"b">>
                      /\ variables[e.kids[1].var].owner = variables[e.kids[2].var].owner

\* a Variable without its address and owner
VariableShape(var) ==
    IF var = 0 THEN <<>>
    ELSE [type |-> variables[var].type, name |-> variables[var].name,
          start |-> variables[var].start, finish |-> variables[var].finish]

\* the structure of a tree: addresses of scopes and variables are replaced by
\* what they hold
RECURSIVE NodeShape(_)
RECURSIVE ScopeShape(_)
NodeShape(n) ==
    IF IsNull(n) THEN n
    ELSE IF n.tag = "Function"
    THEN [n EXCEPT !.body = NodeShape(n.body)]
    ELSE [tag |-> n.tag, kind |-> n.kind, num |-> n.num, exp |-> n.exp, str |-> n.str,
          var |-> VariableShape(n.var),
          scope |-> IF n.scope = 0 THEN <<>> ELSE ScopeShape(n.scope),
          kids |-> [i \in DOMAIN n.kids |-> NodeShape(n.kids[i])],
          start |-> n.start, finish |-> n.finish]

ScopeShape(scope) ==
    [depth |-> Len(OwnerChain(scopes, scope)),
     variables_ |-> [name \in DOMAIN scopes[scope].variables_ |->
                        VariableShape(scopes[scope].variables_[name])],
     functions_ |-> [name \in DOMAIN scopes[scope].functions_ |->
                        NodeShape(scopes[scope].functions_[name])]]

\* the outcome of a parse() call up to addresses
OutcomeShape(r) ==
    [status |-> r.status,
     program |-> IF IsNull(r.program) THEN r.program
                 ELSE [top_ |-> NodeShape(r.program.top_),
                       scope_ |-> ScopeShape(r.program.scope_)]]

\* C10: the outcome of parse(code), its status code, message and location
\* and the structure of the tree, depends on code only: two parses of the
\* same text, on one Parser or on two, with or without other parses in
\* between, hand back structurally equal results.
C10_ReparseDeterminism ==
    \A i, j \in DOMAIN results :
        results[i].code = results[j].code =>
            OutcomeShape(results[i]) = OutcomeShape(results[j])

\* a text parsed successfully, then another text that failed, then the first
\* text again
C10_Witness ==
    /\ Len(results) >= 3
    /\ results[1].code = Scanned(Src_return)
    /\ Succeeded(results[1])
    /\ results[2].code = Scanned(Src_skipped)
    /\ results[2].status.code = "ERROR"
    /\ results[3].code = results[1].code

\* a stack overflow is met only where parse_block does not consume its brace
OverflowOnlyWithoutAsserts == pc = "overflow" => ~debug.parser

\* ---------------------------------------------------------------- C11
\* the nodes of the tree under node, a Function standing for its body
RECURSIVE Subtree(_)
Subtree(node) ==
    IF IsNull(node) THEN {}
    ELSE IF node.tag = "Function" THEN Subtree(node.body)
    ELSE {node} \cup UNION { Subtree(node.kids[i]) : i \in DOMAIN node.kids }

\* the scopes of the tree whose root is root
ScopesUnder(root) ==
    { s \in DOMAIN scopes :
        LET chain == OwnerChain(scopes, s) IN chain[Len(chain)] = root }

\* the functions held by the scopes of the Program that delete has not reached
LiveFunctions(program) ==
    { scopes[s].functions_[name] :
        <<s, name>> \in { <<s, name>> \in ScopesUnder(program.scope_) \X FunNames :
                            /\ name \in DOMAIN scopes[s].functions_
                            /\ CopiesIn(FunctionAt(s, name), deleted) = 0 } }

\* the nodes of the Program that delete has not reached: those of the
\* top-level function and those of the functions its scopes hold
LiveNodes(program) ==
    Subtree(program.top_) \cup UNION { Subtree(fn) : fn \in LiveFunctions(program) }

ReturnsNull ==
    /\ stack' = SubSeq(stack, 1, Len(stack) - 1)
    /\ IsNull(ret')
    /\ pc' = "run"

\* C12: whenever parse_block or parse_function returns nullptr, the current
\* scope is the scope that was current when the function was entered: for
\* parse_block the owner of the scope the block pushed, for parse_function
\* the scope of the block whose loop called it.
C12_ScopeBalancedOnAbort ==
    [][/\ (Running("parse_block") /\ Top.at # "begin" /\ ReturnsNull)
            => scope_' = scopes[Top.blk.scope].owner
       /\ (Running("parse_function") /\ ReturnsNull)
            => scope_' = stack[Len(stack) - 1].blk.scope]_vars

\* ---------------------------------------------------------------- C13
\* parse_declaration is about to define a name the current scope holds
Redeclaration ==
    /\ Running("parse_declaration")
    /\ Top.at = "expr"
    /\ Top.name.value \in DOMAIN scopes[scope_].variables_

\* C13: a declaration of a name the current scope itself already holds puts
\* the status into ERROR and leaves the scope's mapping as it was, while the
\* declaration of a name held only by an ancestor scope is accepted: the
\* parse of { function void f(int a) { int a = 1; } } succeeds.
C13_Redeclaration ==
    /\ [][Redeclaration => (status'.code = "ERROR" /\ scopes' = scopes)]_vars
    /\ [](\A r \in Returned(Src_redeclared) : Succeeded(r))

\* ---------------------------------------------------------------- C14
\* the Call nodes under construction or just handed back by parse_call
CallsInHand ==
    { stack[i].call : i \in { j \in DOMAIN stack : /\ stack[j].fn = "parse_call"
                                                   /\ stack[j].at # "begin" } }
    \cup (IF ret.tag = "Call" THEN {ret} ELSE {})

\* C14: a Call node exists only for a callee that lookup_function finds from
\* the current scope; the parse of f(); with no function f ends with status
\* ERROR and hands back no tree that holds a Call node.
C14_CallResolved ==
    /\ pc = "run" =>
         \A call \in CallsInHand : lookup_function(scopes, scope_, call.str) # 0
    /\ \A r \in Returned(Src_call0) :
         /\ r.status.code = "ERROR"
         /\ IsNull(r.program) \/ \A node \in Subtree(r.program.top_) : node.tag # "Call"

\* ---------------------------------------------------------------- C15
\* what TokenList::at(index) has to answer on the list tokens
AnswersAsSpecified(tokens, index) ==
    LET n == Len(tokens)
        token == at(tokens, index)
    IN  /\ index < n => token = tokens[index + 1]
        /\ index = n => token.kind = "eof"
        /\ index > n => (token.kind = "undef" /\ token.kind # EndToken.kind)

\* the parser reads the token under the cursor: the loop test of parse_toplevel
ReadsToken == Running("parse_toplevel") /\ Top.at = "loop"

\* C15: on a list of n tokens at(i) returns the stored token for i < n, an
\* end-of-input token for i = n and an undef token for i > n, for every
\* cursor and lookahead the parser reaches; a read of the token list returns
\* to the parser.
C15_TokenIndexing ==
    /\ [](\A offset \in 0..2 : AnswersAsSpecified(tokens_, pos_ + offset))
    /\ [][ReadsToken => pc' = "run"]_vars

\* ---------------------------------------------------------------- C16
\* how often scope stands in the child list of owner
TimesChildOf(scope, owner) ==
    Cardinality({ i \in DOMAIN scopes[owner].children_ :
                    scopes[owner].children_[i] = scope })

\* every scope with an owner is once in the child list of its owner and in
\* no other child list
ChildListsFormTree ==
    \A s \in DOMAIN scopes, t \in DOMAIN scopes :
        TimesChildOf(s, t) = (IF scopes[s].owner = t THEN 1 ELSE 0)

\* every Variable a scope was given by define_variable is the one the scope
\* holds under the Variable's name
VariablesStillHeld ==
    \A v \in DOMAIN variables :
        variables[v].owner # 0 =>
            LET held == scopes[variables[v].owner].variables_
            IN  variables[v].name \in DOMAIN held /\ held[variables[v].name] = v

\* every Function a scope holds it holds in the next state as well
FunctionsStayHeld ==
    \A s \in DOMAIN scopes :
        \A name \in DOMAIN scopes[s].functions_ :
            /\ s \in DOMAIN scopes'
            /\ name \in DOMAIN scopes'[s].functions_
            /\ scopes'[s].functions_[name] = scopes[s].functions_[name]

\* the destroyed Program: each scope of its tree, and each Variable and
\* Function given to one of them, was deleted once, and nothing twice
DestroyedOnce ==
    LET tree == ScopesUnder(ret.scope_)
    IN  /\ \A object \in BagToSet(deleted) : CopiesIn(object, deleted) = 1
        /\ \A s \in tree : CopiesIn(ScopeAt(s), deleted) = 1
        /\ \A v \in DOMAIN variables :
             variables[v].owner \in tree => CopiesIn(VariableAt(v), deleted) = 1
        /\ \A s \in tree : \A name \in DOMAIN scopes[s].functions_ :
             CopiesIn(FunctionAt(s, name), deleted) = 1

\* C16: the scopes form a tree by their child lists, every Variable and
\* Function given to a scope by define_variable or define_function stays held
\* by it, and a destroyed Program has deleted each of them exactly once.
C16_ScopeOwnership ==
    /\ [](ChildListsFormTree /\ VariablesStillHeld)
    /\ [][FunctionsStayHeld]_vars
    /\ [](pc = "destroyed" => DestroyedOnce)

\* ---------------------------------------------------------------- C17
\* the functions whose body is being parsed
BodiesInProgress ==
    { stack[i].sign.name : i \in { j \in DOMAIN stack : /\ stack[j].fn = "parse_function"
                                                        /\ stack[j].at = "body" } }

\* C17: while the body of a function f of a block is being parsed, f is
\* already registered: lookup_function(f) from the current scope finds it.
C17_SelfReference ==
    pc = "run" => \A name \in BodiesInProgress : lookup_function(scopes, scope_, name) # 0

\* ---------------------------------------------------------------- C18
\* parse_for goes on from the loop variable to the range expression
ParsesRange ==
    /\ Running("parse_for")
    /\ Top.at = "begin"
    /\ Len(stack') = Len(stack) + 1

\* C18: in for (v in e) { ... } the variable v is resolved where it occurs:
\* the range expression is parsed only when v is defined, parse_for defines
\* no Variable, a For node refers to the Variable the lookup of v answers,
\* and the parse of for (x in y) { } with x undefined ends with status ERROR
\* at the token x.
C18_ForVariable ==
    /\ [][ParsesRange =>
            lookup_variable(scopes, scope_, stack'[Len(stack)].var.value) # 0]_vars
    /\ [][Running("parse_for") =>
            /\ variables' = variables
            /\ ret'.tag = "For" =>
                 ret'.var = lookup_variable(scopes, scope_, Top.var.value)]_vars
    /\ [](\A r \in Returned(Src_for_undefined) :
            /\ r.status.code = "ERROR"
            /\ r.status.location = Locate(Src_for_undefined)[3].location)

\* ---------------------------------------------------------------- C19
\* the diagnostic slot holds an error while the parse is still running
ErrorHeld == pc = "run" /\ status.code = "ERROR"

\* C19: once the status is ERROR, every step up to the return of parse()
\* leaves the status as it is, does not move the cursor, creates no scope,
\* and only returns nullptr from the running function: no frame is entered
\* or changed, so no node is constructed.
C19_FirstErrorWins ==
    [][ErrorHeld =>
         /\ status' = status
         /\ pos_' = pos_
         /\ scopes' = scopes
         /\ IsNull(ret')
         /\ stack' \in {SubSeq(stack, 1, Len(stack) - 1), <<>>}]_vars

\* an error met three calls deep, behind consumed tokens, has unwound to parse()
C19_Witness ==
    /\ ErrorHeld
    /\ Top.fn = "parse"
    /\ pos_ > 1
    /\ status.message = <<"operator expected">>

\* ---------------------------------------------------------------- C20
\* the declarations whose initializer is being parsed
InitializersInProgress ==
    { stack[i] : i \in { j \in DOMAIN stack : /\ stack[j].fn = "parse_declaration"
                                              /\ stack[j].at = "expr" } }

\* parse_declaration hands back its Store
Declares ==
    /\ Running("parse_declaration")
    /\ Top.at = "expr"
    /\ ret'.tag = "Store"

\* C20: the Variable of a declaration is defined in the current scope before
\* the initializer is parsed: while an initializer is parsed a lookup of the
\* declared name answers the declaration's Variable, and when the
\* declaration returns its Store the scope maps the name to the Variable the
\* Store targets.
C20_DeclarationOrder ==
    /\ [](pc = "run" =>
            \A f \in InitializersInProgress :
                lookup_variable(scopes, scope_, f.name.value) = f.ptr)
    /\ [][Declares =>
            /\ ret'.var = Top.ptr
            /\ lookup_variable(scopes', scope_', Top.name.value) = ret'.var]_vars

\* ---------------------------------------------------------------- C21
\* the outcome holds one statement, an If node with a condition and a
\* then-Block, whose else-Block is present or absent as said
IsIfOutcome(r, with_else) ==
    /\ Succeeded(r)
    /\ Len(Statements(r)) = 1
    /\ LET node == Statements(r)[1]
       IN  /\ node.tag = "If"
           /\ ~IsNull(node.kids[1])
           /\ node.kids[2].tag = "Block"
           /\ IF with_else THEN node.kids[3].tag = "Block" ELSE IsNull(node.kids[3])

\* C21: if (1) { } parses successfully into an If node with the condition,
\* the then-Block and a null else-Block; if (f()) { } else { } into an If
\* node with both blocks; parse_if runs into no constructor assertion.
C21_IfWithoutElse ==
    /\ [](\A r \in Returned(Src_ifonly) : IsIfOutcome(r, FALSE))
    /\ [](\A r \in Returned(Src_if) : IsIfOutcome(r, TRUE))
    /\ [][(Running("parse_if") /\ Top.at \in {"then", "else"}) => pc' # "abort"]_vars

\* ---------------------------------------------------------------- C22
\* the outcome holds one statement, a Print node of count expressions
IsPrintOutcome(r, count) ==
    /\ Succeeded(r)
    /\ Len(Statements(r)) = 1
    /\ Statements(r)[1].tag = "Print"
    /\ Len(Statements(r)[1].kids) = count

\* C22: a print statement consumes the keyword and its parenthesized list
\* and yields a Print node of the expressions in source order, print(); one
\* of none and print(1); one holding the literal 1; no assertion fails in
\* parse_print.
C22_PrintStatement ==
    /\ [](\A r \in Returned(Src_print0) : IsPrintOutcome(r, 0))
    /\ [](\A r \in Returned(Src_print) :
            IsPrintOutcome(r, 1) /\ IsInt(Statements(r)[1].kids[1], 1))
    /\ [][Running("parse_print") => pc' # "abort"]_vars
    /\ [][(Running("parse_print") /\ Top.at = "begin" /\ peek_token(1) = "lparen")
            => pos_' = pos_ + 2]_vars

\* ---------------------------------------------------------------- C23
\* the constructor fn is about to run on the arguments of the top frame
Constructing(fn) == pc = "new" /\ Top.fn = fn

\* C23: the assertions of the constructors of BinaryExprNode, UnaryExprNode
\* and StoreNode fail only for a kind that is not a recognized one or for a
\* missing child or variable; with a recognized kind and every child present
\* the constructor returns a node that holds the kind and the children it
\* was given.
C23_ConstructorContracts ==
    [][/\ Constructing("BinaryExprNode") =>
            LET valid == /\ Top.kind \in binaries
                         /\ ~IsNull(Top.left)
                         /\ ~IsNull(Top.right)
            IN  /\ pc' = "abort" => ~valid
                /\ valid => /\ pc' = "done"
                            /\ ret'.kind = Top.kind
                            /\ ret'.kids = <<Top.left, Top.right>>
       /\ Constructing("UnaryExprNode") =>
            LET valid == Top.kind \in unaries /\ ~IsNull(Top.node)
            IN  /\ pc' = "abort" => ~valid
                /\ valid => /\ pc' = "done"
                            /\ ret'.kind = Top.kind
                            /\ ret'.kids = <<Top.node>>
       /\ Constructing("StoreNode") =>
            LET valid == /\ Top.kind \in assignments
                         /\ ~IsNull(Top.expr)
                         /\ Top.var # 0
            IN  /\ pc' = "abort" => ~valid
                /\ valid => /\ pc' = "done"
                            /\ ret'.kind = Top.kind
                            /\ ret'.var = Top.var
                            /\ ret'.kids = <<Top.expr>>]_vars

\* ---------------------------------------------------------------- C24
\* parse_binary holds both operands and is about to construct a BinaryExprNode
ConstructsBinary ==
    /\ pc = "run"
    /\ stack # <<>>
    /\ Top.fn = "parse_binary"
    /\ Top.at = "right"
    /\ ~IsNull(ret)

\* the texts with .., =, += or -= after an operand
MalformedInfix ==
    {Src_infix_range, Src_infix_assign, Src_infix_incrset, Src_infix_decrset}

\* C24: the parser never calls the BinaryExprNode constructor with a kind
\* outside the constructor's infix set, parse_binary never stops on a failed
\* assertion, and a text with .., =, += or -= after an operand ends its parse
\* with status ERROR or with a tree.
C24_MalformedInfix ==
    /\ ConstructsBinary => Top.op.kind \in binaries
    /\ (pc = "abort" /\ stack # <<>>) => Top.fn # "parse_binary"
    /\ \A ws \in MalformedInfix :
         \A r \in Returned(ws) : r.status.code = "ERROR" \/ Succeeded(r)

\* parse_binary took .. for an infix operator, and the parse of its right
\* operand has put the status into ERROR
C24_Witness ==
    /\ pc = "run"
    /\ status.code = "ERROR"
    /\ stack # <<>>
    /\ Top.fn = "parse_binary"
    /\ Top.at = "right"
    /\ Top.op.kind = "range"

\* ---------------------------------------------------------------- C25
\* the functions the scopes hold
AcceptedFunctions ==
    UNION { { scopes[s].functions_[name] : name \in DOMAIN scopes[s].functions_ } :
            s \in DOMAIN scopes }

\* the scope of the parameters of fn: the owner of the scope of its body
ParameterScope(fn) == scopes[fn.body.scope].owner

\* C25: a function declaration that names a parameter twice ends the parse
\* with status ERROR; the parameter names of every function the parser
\* accepted are pairwise distinct, and the scope of its parameters holds one
\* Variable per parameter.
C25_DistinctParameters ==
    /\ \A r \in Returned(Src_dupparam) : r.status.code = "ERROR"
    /\ \A fn \in AcceptedFunctions :
         LET params == fn.signature.params
         IN  /\ \A i \in DOMAIN params, j \in DOMAIN params :
                   params[i][2] = params[j][2] => i = j
             /\ Cardinality(DOMAIN scopes[ParameterScope(fn)].variables_) = Len(params)

\* ---------------------------------------------------------------- C26
\* parse_statement has returned to the loop that called it, with no node
StatementYieldedNothing ==
    /\ pc = "run"
    /\ stack # <<>>
    /\ Top.fn \in {"parse_toplevel", "parse_block"}
    /\ Top.at = "stmt"
    /\ IsNull(ret)

\* C26: a declaration without = after its name, as in int x; ends the parse
\* with status ERROR, and whenever parse_statement yields no node the status
\* is ERROR.
C26_MissingAssign ==
    /\ \A r \in Returned(Src_noinit) : r.status.code = "ERROR"
    /\ StatementYieldedNothing => status.code = "ERROR"

\* ---------------------------------------------------------------- C27
\* every entry of the variable map of a scope leads to a Variable of that
\* name whose owner is the scope
EntriesOwned ==
    \A s \in DOMAIN scopes :
        \A name \in DOMAIN scopes[s].variables_ :
            LET v == scopes[s].variables_[name]
            IN  variables[v].name = name /\ variables[v].owner = s

\* a Variable that has an owner keeps it
OwnerKept ==
    \A v \in DOMAIN variables :
        variables[v].owner # 0 =>
            v \in DOMAIN variables' /\ variables'[v].owner = variables[v].owner

\* C27: each entry (name -> v) of the variable map of a scope S has
\* v.name = name and v.owner = S, and the owner of a Variable, once set by
\* define_variable, never changes.
C27_VariableOwner == [](EntriesOwned) /\ [][OwnerKept]_vars

\* two scopes hold a Variable each
C27_Witness ==
    \E s \in DOMAIN scopes, t \in DOMAIN scopes :
        /\ s # t
        /\ scopes[s].variables_ # <<>>
        /\ scopes[t].variables_ # <<>>

\* ---------------------------------------------------------------- C28
\* the parse_block calls that have entered their loop and not returned
OpenBlocks ==
    { i \in DOMAIN stack : stack[i].fn = "parse_block" /\ stack[i].at # "begin" }

\* C28: parse terminates: every iteration of a loop advances the token
\* cursor or fails, so the blocks open at any moment are at most as many as
\* the tokens consumed so far, and the recursion never uses up the stack.
C28_Termination ==
    /\ pc = "run" => Cardinality(OpenBlocks) <= pos_
    /\ pc # "overflow"

\* ---------------------------------------------------------------- C29
\* the closing quote of the string literal whose content starts at text[i]:
\* the first quote that is not the second character of an escape, 0 if none
RECURSIVE ClosingQuote(_, _)
ClosingQuote(text, i) ==
    IF i > Len(text) THEN 0
    ELSE IF text[i] = "'" THEN i
    ELSE IF text[i] = "\\" /\ i < Len(text) THEN ClosingQuote(text, i + 2)
    ELSE ClosingQuote(text, i + 1)

\* the value the content text[i..j-1] stands for: one character for each
\* escape, every other character as it is
RECURSIVE Content(_, _, _)
Content(text, i, j) ==
    IF i >= j THEN <<>>
    ELSE IF text[i] = "\\" /\ i < Len(text)
    THEN <<get_unescaped(text[i + 1])>> \o Content(text, i + 2, j)
    ELSE <<text[i]>> \o Content(text, i + 1, j)

ScansString == pc = "run" /\ stack # <<>> /\ Top.fn = "scan_string"

\* C29: scan_string, on a literal that has a closing quote, adds exactly one
\* string_l token whose value has one character for each escape and stops
\* right after the closing quote; only a literal without a closing quote
\* before the end of the input gives status ERROR.
C29_StringLiteral ==
    [][ScansString =>
          LET first == scanner.pos_ + 2
              close == ClosingQuote(scanner.code_, first)
          IN  IF close # 0
              THEN /\ scanner'.tokens_ = Append(scanner.tokens_,
                                        Token("string_l",
                                              Content(scanner.code_, first, close),
                                              Location(scanner.line_, scanner.offset_)))
                   /\ scanner'.pos_ = close
                   /\ scanner'.status_.code # "ERROR"
              ELSE /\ scanner'.tokens_ = scanner.tokens_
                   /\ scanner'.status_.code = "ERROR"]_vars

\* ---------------------------------------------------------------- C30
\* where the first // of text begins, 0 if there is none
CommentStart(text) ==
    LET starts == { i \in 1..(Len(text) - 1) : text[i] = "/" /\ text[i + 1] = "/" }
    IN  IF starts = {} THEN 0 ELSE CHOOSE i \in starts : \A j \in starts : i <= j

\* where the newline that ends the comment begun at text[i] is, 0 if none
CommentEnd(text, i) ==
    LET ends == { j \in (i + 2)..Len(text) : text[j] = "\n" }
    IN  IF ends = {} THEN 0 ELSE CHOOSE j \in ends : \A k \in ends : j <= k

\* text begins a line comment outside any string literal and ends it
HasLineComment(text) ==
    /\ CommentStart(text) # 0
    /\ CommentEnd(text, CommentStart(text)) # 0
    /\ \A i \in 1..CommentStart(text) : text[i] # "'"

\* text with its first line comment, newline included, replaced by a newline
Uncommented(text) ==
    LET i == CommentStart(text)
        j == CommentEnd(text, i)
    IN  SubSeq(text, 1, i - 1) \o <<"\n">> \o SubSeq(text, j + 1, Len(text))

Lexemes(toks) == [i \in DOMAIN toks |-> <<toks[i].kind, toks[i].value>>]

\* C30: a line comment is transparent: the scan of a text gives the status
\* and the kinds and lexemes that the scan of the same text gives with the
\* comment, up to and including its newline, replaced by one newline.
C30_CommentTransparent ==
    pc = "done" /\ HasLineComment(scanner.code_) =>
        LET plain == scan(Uncommented(scanner.code_))
        IN  /\ scanner.status_.code = plain.status_.code
            /\ Lexemes(scanner.tokens_) = Lexemes(plain.tokens_)

====
